---- MODULE Spec2Model ----
(***************************************************************************)
(* Model of the TemporalNamespace reconciler of temporal-operator          *)
(* (controllers/temporalnamespace_controller.go): one namespace object in  *)
(* the object store, its referenced cluster, the remote Temporal server    *)
(* (namespace registration and custom search attributes) and the work      *)
(* queue of the controller runtime.  One action per handler; a reconcile   *)
(* pass is a single action that covers the whole of Reconcile, the         *)
(* deferred patch included.                                                *)
(***************************************************************************)
EXTENDS Integers, Sequences, FiniteSets, TLC

\* ------------------------------------------------------------------ bounds

\* Number of custom search attribute names the spec and the server range over
\* in the lifecycle specification (Spec).
NumNames == 1

\* Number of names in the attribute reconciliation specification (AttrSpec).
AttrNumNames == 3

\* Number of TemporalNamespace keys of the propagator specification.
NumDependents == 3

\* Longest list of datastores of a cluster spec, and the number of calls of
\* reconcileDefaults in a row.
MaxDatastores == 1
MaxRuns == 2

\* Number of calls of a builder's Update on one object in a row.
MaxUpdates == 2

\* ---------------------------------------------------------------- strings

\* Go strings whose content matters are sequences of one-character strings.
S_Int == <<"I", "n", "t">>
S_INT == <<"I", "N", "T">>
S_Text == <<"T", "e", "x", "t">>
S_text == <<"t", "e", "x", "t">>
S_Keyword == <<"K", "e", "y", "w", "o", "r", "d">>
S_Bogus == <<"B", "o", "g", "u", "s">>

UpperChars == <<"A","B","C","D","E","F","G","H","I","J","K","L","M",
                "N","O","P","Q","R","S","T","U","V","W","X","Y","Z">>
LowerChars == <<"a","b","c","d","e","f","g","h","i","j","k","l","m",
                "n","o","p","q","r","s","t","u","v","w","x","y","z">>

\* Simple case folding (strings.EqualFold, ASCII part): the lower-case
\* letter of every upper-case letter, and the folding of one character.
ToLower ==
  [u \in { UpperChars[i] : i \in 1..Len(UpperChars) } |->
     LowerChars[CHOOSE i \in 1..Len(UpperChars) : UpperChars[i] = u]]
Fold(c) == IF c \in DOMAIN ToLower THEN ToLower[c] ELSE c

\* strings.EqualFold(a, b)
EqualFold(a, b) ==
  /\ Len(a) = Len(b)
  /\ \A i \in 1..Len(a) : Fold(a[i]) = Fold(b[i])

\* enums.IndexedValueType_shorthandValue: shorthand name -> enum number.
IndexedValueType_shorthandValue ==
  { [k |-> <<"U","n","s","p","e","c","i","f","i","e","d">>, v |-> 0],
    [k |-> S_Text, v |-> 1],
    [k |-> S_Keyword, v |-> 2],
    [k |-> S_Int, v |-> 3],
    [k |-> <<"D","o","u","b","l","e">>, v |-> 4],
    [k |-> <<"B","o","o","l">>, v |-> 5],
    [k |-> <<"D","a","t","e","t","i","m","e">>, v |-> 6],
    [k |-> <<"K","e","y","w","o","r","d","L","i","s","t">>, v |-> 7] }

\* IndexedValueType.String() of the types the model's server can hold.
TypeName(t) ==
  CASE t = 1 -> "Text"
    [] t = 2 -> "Keyword"
    [] t = 3 -> "Int"
    [] OTHER -> "Other"

\* A Go error is a sequence of message parts; nil is the empty sequence.
nil == <<>>
Wrap(prefix, err) == <<prefix>> \o err

\* searchAttributeTypeStringToEnum: [err, value].
searchAttributeTypeStringToEnum(searchAttributeTypeString) ==
  LET hits == { e \in IndexedValueType_shorthandValue :
                  EqualFold(searchAttributeTypeString, e.k) }
  IN IF hits # {}
     THEN [err |-> nil, value |-> (CHOOSE e \in hits : TRUE).v]
     ELSE [err |-> <<"unsupported search attribute type">>, value |-> 0]

\* ------------------------------------------------------- attribute universe

AllNames == <<"Amount", "CustomerId", "Legacy", "Region">>
NamesUpTo(k) == { AllNames[i] : i \in 1..k }

\* Types the server may hold (Text, Int).
ServerTypes == {1, 3}

Maps(names, values) == UNION { [d -> values] : d \in SUBSET names }
EmptyMap == [n \in {} |-> 0]

\* Lifecycle specification: the spec's and the server's mappings.
SpecMaps == Maps(NamesUpTo(NumNames), {S_INT})
ServerMaps == Maps(NamesUpTo(NumNames), ServerTypes)

\* Attribute specification: the spec's and the server's mappings.
AttrSpecMaps == Maps(NamesUpTo(AttrNumNames), {S_Int, S_text, S_Bogus})
AttrServerMaps == Maps(NamesUpTo(AttrNumNames), ServerTypes)

\* Go iterates a map in an unspecified order; a loop that returns at the
\* first entry of some kind may therefore return at any entry of that kind.
\* The input `first` names the entry the iteration favours: the loop returns
\* at it when it is of the kind (s), and at some other entry of s otherwise.
FirstIn(first, s) == IF first \in s THEN first ELSE CHOOSE n \in s : TRUE

\* The entries the iteration over map m may favour.
Favoured(m) == IF DOMAIN m = {} THEN {""} ELSE DOMAIN m

\* ------------------------------------------------------------ remote server

\* One remote call as the pass log records it.
Call(op, outcome, names, attrs) ==
  [op |-> op, outcome |-> outcome, names |-> names, attrs |-> attrs]
SimpleCall(op, outcome) == Call(op, outcome, {}, EmptyMap)

TransportErr == <<"transport error">>

\* Server side of OperatorService.RemoveSearchAttributes: the named custom
\* attributes are dropped from the namespace's mapping.
RemoveSearchAttributes(attrs, names) ==
  [n \in (DOMAIN attrs) \ names |-> attrs[n]]

\* Server side of OperatorService.AddSearchAttributes: the entries are added.
AddSearchAttributes(attrs, add) ==
  [n \in (DOMAIN attrs) \cup (DOMAIN add) |->
     IF n \in DOMAIN add THEN add[n] ELSE attrs[n]]

\* ------------------------------------------------- attribute-set reconciler

\* Mutant of specCustomSearchAttributes: an unresolvable entry is skipped.
specCustomSearchAttributes_Skipping(specAttrs, first) ==
  [err |-> nil,
   m |-> [n \in { x \in DOMAIN specAttrs :
                    searchAttributeTypeStringToEnum(specAttrs[x]).err = nil }
            |-> searchAttributeTypeStringToEnum(specAttrs[n]).value]]

\* The string->enum translation loop: the first unresolvable entry met in the
\* map's iteration order ends the function with an error.
specCustomSearchAttributes(specAttrs, first) ==
  LET bad == { n \in DOMAIN specAttrs :
                 searchAttributeTypeStringToEnum(specAttrs[n]).err # nil }
  IN IF bad # {}
     THEN [err |-> Wrap("failed to parse search attribute",
                        <<FirstIn(first, bad)>>
                        \o searchAttributeTypeStringToEnum(
                             specAttrs[FirstIn(first, bad)]).err),
           m |-> EmptyMap]
     ELSE [err |-> nil,
           m |-> [n \in DOMAIN specAttrs |->
                    searchAttributeTypeStringToEnum(specAttrs[n]).value]]

\* Mutant of customSearchAttributesToRemove: every name on the server is
\* removed, shared names included.
customSearchAttributesToRemove_All(specM, server) == DOMAIN server

\* Names on the server whose name does not exist in the spec.
customSearchAttributesToRemove(specM, server) ==
  { n \in DOMAIN server : n \notin DOMAIN specM }

\* Mutant of customSearchAttributesToAdd: one missing entry is added per
\* pass.
customSearchAttributesToAdd_OneEntry(specM, server) ==
  [n \in { x \in DOMAIN specM :
             /\ x \notin DOMAIN server
             /\ x = CHOOSE y \in DOMAIN specM : y \notin DOMAIN server }
     |-> specM[n]]

\* Entries of the spec whose name does not exist on the server.
customSearchAttributesToAdd(specM, server) ==
  [n \in { x \in DOMAIN specM : x \notin DOMAIN server } |-> specM[n]]

\* Names present on both sides with different types.
conflictingSearchAttributes(specM, server) ==
  { n \in (DOMAIN specM) \cap (DOMAIN server) : specM[n] # server[n] }

\* Mutant of conflictError: a type mismatch is not noticed.
conflictError_Ignored(specM, server, first) == nil

\* The add/conflict loop: the first conflicting name met in iteration order
\* ends the function with an error, before any request is made.
conflictError(specM, server, first) ==
  LET c == conflictingSearchAttributes(specM, server)
  IN IF c = {} THEN nil
     ELSE <<"search attribute already exists and has different type",
            FirstIn(first, c), TypeName(server[FirstIn(first, c)])>>

\* Mutant of applySearchAttributeRequests: a failed remove request does not
\* end the function.
applySearchAttributeRequests_NoStop(toRemove, toAdd, remote, fault, calls) ==
  LET rmCalled == toRemove # {}
      rmFailed == rmCalled /\ fault = "remove"
      callsR == IF rmCalled
                THEN Append(calls, Call("RemoveSearchAttributes",
                                        IF rmFailed THEN "error" ELSE "ok",
                                        toRemove, EmptyMap))
                ELSE calls
      attrsR == IF rmCalled /\ ~rmFailed
                THEN RemoveSearchAttributes(remote.attrs, toRemove)
                ELSE remote.attrs
  IN IF DOMAIN toAdd = {}
     THEN [err |-> nil, remote |-> [remote EXCEPT !.attrs = attrsR],
           calls |-> callsR]
     ELSE IF fault = "add"
     THEN [err |-> Wrap("failed to add search attributes", TransportErr),
           remote |-> [remote EXCEPT !.attrs = attrsR],
           calls |-> Append(callsR, Call("AddSearchAttributes", "error",
                                         {}, toAdd))]
     ELSE [err |-> nil,
           remote |-> [remote EXCEPT
                         !.attrs = AddSearchAttributes(attrsR, toAdd)],
           calls |-> Append(callsR, Call("AddSearchAttributes", "ok",
                                         {}, toAdd))]

\* The two requests of step 4, remove first, each skipped when its set is
\* empty; a failed request ends the function.
applySearchAttributeRequests(toRemove, toAdd, remote, fault, calls) ==
  LET rmCalled == toRemove # {}
      rmFailed == rmCalled /\ fault = "remove"
      callsR == IF rmCalled
                THEN Append(calls, Call("RemoveSearchAttributes",
                                        IF rmFailed THEN "error" ELSE "ok",
                                        toRemove, EmptyMap))
                ELSE calls
      attrsR == IF rmCalled /\ ~rmFailed
                THEN RemoveSearchAttributes(remote.attrs, toRemove)
                ELSE remote.attrs
      addCalled == DOMAIN toAdd # {}
      addFailed == addCalled /\ fault = "add"
  IN IF rmFailed
     THEN [err |-> Wrap("failed to remove search attributes", TransportErr),
           remote |-> remote, calls |-> callsR]
     ELSE IF ~addCalled
     THEN [err |-> nil, remote |-> [remote EXCEPT !.attrs = attrsR],
           calls |-> callsR]
     ELSE IF addFailed
     THEN [err |-> Wrap("failed to add search attributes", TransportErr),
           remote |-> [remote EXCEPT !.attrs = attrsR],
           calls |-> Append(callsR, Call("AddSearchAttributes", "error",
                                         {}, toAdd))]
     ELSE [err |-> nil,
           remote |-> [remote EXCEPT
                         !.attrs = AddSearchAttributes(attrsR, toAdd)],
           calls |-> Append(callsR, Call("AddSearchAttributes", "ok",
                                         {}, toAdd))]

\* What reconcileCustomSearchAttributes returns once its client is open.
AttrOut(err, remote, calls) ==
  [err |-> err, remote |-> remote, calls |-> calls, opened |-> 1,
   closed |-> 0]

\* reconcileCustomSearchAttributes after the conflict check passed.
attributesRequested(done) == AttrOut(done.err, done.remote, done.calls)

\* reconcileCustomSearchAttributes after the spec's strings were translated.
attributesCompared(parsed, cerr, remote, fault, listed) ==
  IF parsed.err # nil THEN AttrOut(parsed.err, remote, listed)
  ELSE IF cerr # nil THEN AttrOut(cerr, remote, listed)
  ELSE attributesRequested(
         applySearchAttributeRequests(
           customSearchAttributesToRemove(parsed.m, remote.attrs),
           customSearchAttributesToAdd(parsed.m, remote.attrs),
           remote, fault, listed))

\* reconcileCustomSearchAttributes after the server's attributes were listed.
attributesListed(parsed, remote, fault, first, listed) ==
  attributesCompared(parsed, conflictError(parsed.m, remote.attrs, first),
                     remote, fault, listed)

\* reconcileCustomSearchAttributes: [err, remote, calls, opened, closed].
\* The cluster client it opens is not closed by the function.
reconcileCustomSearchAttributes(namespace, remote, fault, first) ==
  IF fault = "clusterClient"
  THEN [err |-> TransportErr, remote |-> remote, calls |-> <<>>,
        opened |-> 0, closed |-> 0]
  ELSE IF fault = "list"
  THEN AttrOut(TransportErr, remote,
               <<SimpleCall("ListSearchAttributes", "error")>>)
  ELSE attributesListed(
         specCustomSearchAttributes(namespace.attrs, first), remote, fault,
         first, <<SimpleCall("ListSearchAttributes", "ok")>>)

\* --------------------------------------------------------- namespace object

DeletionFinalizer == "deletion.finalizers.temporal.io"
ForeignFinalizer == "other.example.com/finalizer"

ReconcileErrorReason == "ReconcileError"
ReconcileSuccessReason == "ReconcileSuccess"
TemporalNamespaceCreatedReason == "TemporalNamespaceCreated"

CondTypes == {"Ready", "ReconcileSuccess", "ReconcileError"}
NoCond == [status |-> "absent", reason |-> "", message |-> nil]
NoConds == [t \in CondTypes |-> NoCond]

\* The condition ledger's set operation: the entry of the given type is
\* replaced, entries of other types are kept.
SetCondition(conds, type, status, reason, message) ==
  [conds EXCEPT ![type] =
     [status |-> status, reason |-> reason, message |-> message]]

\* v1beta1.SetTemporalNamespaceReconcileError / ...ReconcileSuccess / ...Ready
SetTemporalNamespaceReconcileError(namespace, status, reason, message) ==
  [namespace EXCEPT !.conditions =
     SetCondition(@, "ReconcileError", status, reason, message)]
SetTemporalNamespaceReconcileSuccess(namespace, status, reason, message) ==
  [namespace EXCEPT !.conditions =
     SetCondition(@, "ReconcileSuccess", status, reason, message)]
SetTemporalNamespaceReady(namespace, status, reason, message) ==
  [namespace EXCEPT !.conditions =
     SetCondition(@, "Ready", status, reason, message)]

\* controllerutil.AddFinalizer / RemoveFinalizer / ContainsFinalizer
AddFinalizer(namespace, f) ==
  [namespace EXCEPT !.finalizers = @ \cup {f}]
RemoveFinalizer(namespace, f) ==
  [namespace EXCEPT !.finalizers = @ \ {f}]
ContainsFinalizer(namespace, f) == f \in namespace.finalizers

\* The object once the store has removed it.
Gone ==
  [exists |-> FALSE, deleting |-> FALSE, finalizers |-> {},
   allowDeletion |-> FALSE, attrs |-> EmptyMap, conditions |-> NoConds]

\* ------------------------------------------------------------- the handlers

\* The fixed requeue delay of a pass whose cluster is not ready (seconds).
PollInterval == 10

Result(requeueAfter, err) == [requeueAfter |-> requeueAfter, err |-> err]

\* What a pass hands back: the in-memory object, the reconcile.Result and
\* error, the branch taken, the remote server's state, the remote calls
\* issued in order, the client connections opened and closed, and the
\* condition types the pass set.
Out(ns, result, branch, remote, calls, opened, closed, set) ==
  [ns |-> ns, result |-> result, branch |-> branch, remote |-> remote,
   calls |-> calls, opened |-> opened, closed |-> closed, set |-> set]

\* handleErrorWithRequeue: [ns, result].
handleErrorWithRequeue(namespace, reason, err, requeueAfter) ==
  [ns |-> SetTemporalNamespaceReconcileError(
            namespace, "True",
            IF reason = "" THEN ReconcileErrorReason ELSE reason, err),
   result |-> Result(requeueAfter, nil)]

\* handleError
handleError(namespace, reason, err) ==
  handleErrorWithRequeue(namespace, reason, err, 0)

\* handleSuccessWithRequeue: [ns, result].
handleSuccessWithRequeue(namespace, requeueAfter) ==
  [ns |-> SetTemporalNamespaceReconcileSuccess(
            namespace, "True", ReconcileSuccessReason, nil),
   result |-> Result(requeueAfter, nil)]

\* handleSuccess
handleSuccess(namespace) == handleSuccessWithRequeue(namespace, 0)

\* The return statements of Reconcile that go through handleError, each
\* named after the step that failed.
ErrorBranches ==
  {"error:clusterGet", "error:clusterNotFound", "error:delete",
   "error:nsClient", "error:register", "error:update", "error:attributes"}

\* A pass that ends through handleError at the return statement `branch`.
ErrorOut(branch, namespace, err, remote, calls, opened, closed) ==
  LET h == handleError(namespace, ReconcileErrorReason, err)
  IN Out(h.ns, h.result, branch, remote, calls, opened, closed,
         {"ReconcileError"})

\* Mutant of ensureFinalizer: spec.allowDeletion is not looked at.
ensureFinalizer_Unconditional(namespace) ==
  IF ~namespace.deleting
  THEN AddFinalizer(namespace, DeletionFinalizer)
  ELSE namespace

\* ensureFinalizer
ensureFinalizer(namespace) ==
  IF ~namespace.deleting /\ namespace.allowDeletion
  THEN AddFinalizer(namespace, DeletionFinalizer)
  ELSE namespace

\* Server side of OperatorService.DeleteNamespace: [outcome, remote].
DeleteNamespace(remote, fault) ==
  IF fault = "delete" THEN [outcome |-> "error", remote |-> remote]
  ELSE IF ~remote.ns THEN [outcome |-> "NotFound", remote |-> remote]
  ELSE [outcome |-> "ok", remote |-> [ns |-> FALSE, attrs |-> EmptyMap]]

\* Mutant of namespaceDeleteReturned: the finalizer is removed whatever the
\* DeleteNamespace call returned.
namespaceDeleteReturned_Always(namespace, d) ==
  [err |-> IF d.outcome = "error"
           THEN Wrap("can't delete namespace", TransportErr) ELSE nil,
   ns |-> RemoveFinalizer(namespace, DeletionFinalizer),
   remote |-> d.remote,
   calls |-> <<SimpleCall("DeleteNamespace", d.outcome)>>,
   opened |-> 1, closed |-> 1]

\* ensureNamespaceDeleted after the DeleteNamespace call returned d.
namespaceDeleteReturned(namespace, d) ==
  IF d.outcome = "error"
  THEN [err |-> Wrap("can't delete namespace", TransportErr),
        ns |-> namespace, remote |-> d.remote,
        calls |-> <<SimpleCall("DeleteNamespace", "error")>>,
        opened |-> 1, closed |-> 1]
  ELSE [err |-> nil,
        ns |-> RemoveFinalizer(namespace, DeletionFinalizer),
        remote |-> d.remote,
        calls |-> <<SimpleCall("DeleteNamespace", d.outcome)>>,
        opened |-> 1, closed |-> 1]

\* Mutant of ensureNamespaceDeleted: the finalizer is not looked for.
ensureNamespaceDeleted_Unchecked(namespace, remote, fault) ==
  IF fault = "delClient"
  THEN [err |-> Wrap("can't create cluster client", TransportErr),
        ns |-> namespace, remote |-> remote, calls |-> <<>>,
        opened |-> 0, closed |-> 0]
  ELSE namespaceDeleteReturned(namespace, DeleteNamespace(remote, fault))

\* ensureNamespaceDeleted: [err, ns, remote, calls, opened, closed].
ensureNamespaceDeleted(namespace, remote, fault) ==
  IF ~ContainsFinalizer(namespace, DeletionFinalizer)
  THEN [err |-> nil, ns |-> namespace, remote |-> remote, calls |-> <<>>,
        opened |-> 0, closed |-> 0]
  ELSE IF fault = "delClient"
  THEN [err |-> Wrap("can't create cluster client", TransportErr),
        ns |-> namespace, remote |-> remote, calls |-> <<>>,
        opened |-> 0, closed |-> 0]
  ELSE namespaceDeleteReturned(namespace, DeleteNamespace(remote, fault))

\* Mutant of registerNamespace: already-exists is an error like any other.
registerNamespace_NoFallback(remote, fault) ==
  IF fault = "register" \/ remote.ns
  THEN [err |-> Wrap("can't create namespace", TransportErr),
        remote |-> remote,
        calls |-> <<SimpleCall("Register",
                               IF fault = "register" THEN "error"
                               ELSE "AlreadyExists")>>]
  ELSE [err |-> nil, remote |-> [remote EXCEPT !.ns = TRUE],
        calls |-> <<SimpleCall("Register", "ok")>>]

\* The register call and its fallback to update: [err, remote, calls].
registerNamespace(remote, fault) ==
  IF fault = "register"
  THEN [err |-> Wrap("can't create namespace", TransportErr),
        remote |-> remote,
        calls |-> <<SimpleCall("Register", "error")>>]
  ELSE IF ~remote.ns
  THEN [err |-> nil, remote |-> [remote EXCEPT !.ns = TRUE],
        calls |-> <<SimpleCall("Register", "ok")>>]
  ELSE IF fault = "update"
  THEN [err |-> TransportErr, remote |-> remote,
        calls |-> <<SimpleCall("Register", "AlreadyExists"),
                    SimpleCall("Update", "error")>>]
  ELSE [err |-> nil, remote |-> remote,
        calls |-> <<SimpleCall("Register", "AlreadyExists"),
                    SimpleCall("Update", "ok")>>]

\* Mutant of clusterNotReady: the readiness check is left out.
clusterNotReady_Skipped(cl) == FALSE

\* The dependency gate: the referenced cluster is present but not ready.
clusterNotReady(cl) == cl # "ready"

\* The success return: h is what handleSuccess handed back.
successReturned(h, reg, sa) ==
  Out(h.ns, h.result, "success", sa.remote, reg.calls \o sa.calls,
      1 + sa.opened, 1 + sa.closed, {"Ready", "ReconcileSuccess"})

\* Mutant of attributesReturned: the error of attribute reconciliation is
\* not looked at.
attributesReturned_ErrorIgnored(ns1, reg, sa) ==
  successReturned(
    handleSuccess(
      SetTemporalNamespaceReady(
        ns1, "True", TemporalNamespaceCreatedReason,
        <<"Namespace successfully created">>)),
    reg, sa)

\* The end of a pass whose attribute reconciliation returned sa.
attributesReturned(ns1, reg, sa) ==
  IF sa.err # nil
  THEN ErrorOut("error:attributes", ns1, sa.err, sa.remote,
                reg.calls \o sa.calls, 1 + sa.opened, 1 + sa.closed)
  ELSE successReturned(
         handleSuccess(
           SetTemporalNamespaceReady(
             ns1, "True", TemporalNamespaceCreatedReason,
             <<"Namespace successfully created">>)),
         reg, sa)

\* The pass after the register call (and its fallback) returned reg.
registerReturned(ns1, reg, fault, first) ==
  IF reg.err # nil
  THEN ErrorOut(IF fault = "register" THEN "error:register"
                ELSE "error:update",
                ns1, reg.err, reg.remote, reg.calls, 1, 1)
  ELSE attributesReturned(
         ns1, reg,
         reconcileCustomSearchAttributes(ns1, reg.remote, fault, first))

\* The pass after the finalizer-ensure step left the object as ns1.
finalizerEnsured(ns1, remote, fault, first) ==
  IF fault = "nsClient"
  THEN ErrorOut("error:nsClient", ns1,
                Wrap("can't create cluster namespace client", TransportErr),
                remote, <<>>, 0, 0)
  ELSE registerReturned(ns1, registerNamespace(remote, fault), fault, first)

\* The pass from the finalizer-ensure step on (cluster ready, no deletion).
converge(namespace, remote, fault, first) ==
  finalizerEnsured(ensureFinalizer(namespace), remote, fault, first)

\* The deletion branch after ensureNamespaceDeleted returned d.
namespaceDeleted_ErrorSwallowed(namespace, d) ==
  Out(d.ns, Result(0, nil), "deleted", d.remote, d.calls,
      d.opened, d.closed, {})

namespaceDeleted(namespace, d) ==
  IF d.err # nil
  THEN ErrorOut("error:delete", d.ns, d.err, d.remote, d.calls,
                d.opened, d.closed)
  ELSE Out(d.ns, Result(0, nil), "deleted", d.remote, d.calls,
           d.opened, d.closed, {})

\* The deletion branch.
deletion(namespace, remote, fault) ==
  namespaceDeleted(namespace, ensureNamespaceDeleted(namespace, remote, fault))

\* Mutant of clusterAbsent: the finalizer is left on the object.
clusterAbsent_KeepsFinalizer(namespace, remote) ==
  IF namespace.deleting
  THEN Out(namespace, Result(0, nil), "clusterGone", remote, <<>>, 0, 0, {})
  ELSE ErrorOut("error:clusterNotFound", namespace,
                <<"TemporalCluster not found">>, remote, <<>>, 0, 0)

\* The cluster lookup when the cluster is absent from the store.
clusterAbsent(namespace, remote) ==
  IF namespace.deleting
  THEN Out(RemoveFinalizer(namespace, DeletionFinalizer), Result(0, nil),
           "clusterGone", remote, <<>>, 0, 0, {})
  ELSE ErrorOut("error:clusterNotFound", namespace,
                <<"TemporalCluster not found">>, remote, <<>>, 0, 0)

\* Reconcile after the object was fetched and the patch helper created, up
\* to its return statement (the deferred patch excluded).
ReconcileLogic(namespace, cl, remote, fault, first) ==
  IF fault = "clusterGet"
  THEN ErrorOut("error:clusterGet", namespace, TransportErr, remote,
                <<>>, 0, 0)
  ELSE IF cl = "absent"
  THEN clusterAbsent(namespace, remote)
  ELSE IF clusterNotReady(cl)
  THEN Out(namespace, Result(PollInterval, nil), "notReady", remote,
           <<>>, 0, 0, {})
  ELSE IF namespace.deleting
  THEN deletion(namespace, remote, fault)
  ELSE converge(namespace, remote, fault, first)

\* --------------------------------------------------- dependency propagator

\* client.ObjectKeyFromObject
ObjectKeyFromObject(o) == [namespace |-> o.namespace, name |-> o.name]

\* ClusterRef.NamespacedName(obj): the reference's namespace, or the
\* referencing object's own namespace when the reference has none.
NamespacedName(ref, o) ==
  [namespace |-> IF ref.namespace # "" THEN ref.namespace ELSE o.namespace,
   name |-> ref.name]

\* The field index on spec.clusterRef.name: the values an object is indexed
\* under.
clusterRefField(temporalNamespace) ==
  IF temporalNamespace.clusterRef.name = ""
  THEN {}
  ELSE {temporalNamespace.clusterRef.name}

\* r.Client.List with the field selector clusterRefField = value.
List(items, value) == { o \in items : value \in clusterRefField(o) }

\* Mutant of clusterToNamespacesMapfunc: the namespace of the reference is
\* not compared.
clusterToNamespacesMapfunc_NameOnly(cl, items, listOk) ==
  IF ~listOk THEN {}
  ELSE { ObjectKeyFromObject(o) : o \in List(items, cl.name) }

\* clusterToNamespacesMapfunc for an event on cluster cl: the reconcile
\* requests returned (none when the list fails).
clusterToNamespacesMapfunc(cl, items, listOk) ==
  IF ~listOk THEN {}
  ELSE { ObjectKeyFromObject(o) :
           o \in { x \in List(items, cl.name) :
                     NamespacedName(x.clusterRef, x)
                       = ObjectKeyFromObject(cl) } }

\* The cluster and the namespace object of the lifecycle specifications.
TheCluster == [namespace |-> "default", name |-> "prod"]
TheNamespace ==
  [namespace |-> "default", name |-> "orders",
   clusterRef |-> [namespace |-> "", name |-> "prod"]]

\* ---------------------------------------------------- defaults normalizer

\* A Go pointer is nil or a one-element sequence holding the value pointed
\* to; a duration is a number of hours.
defaultTemporalVersion == "1.17.4"
defaultTemporalImage == "temporalio/server"
defaultTemporalUIVersion == "2.5.0"
defaultTemporalUIImage == "temporalio/ui"
defaultTemporalAdmintoolsImage == "temporalio/admin-tools"

\* if s == "" { s = d }  and  if p == nil { p = &d }
StringOr(str, d) == IF str = "" THEN d ELSE str
PointerOr(ptr, d) == IF ptr = nil THEN <<d>> ELSE ptr

\* new(v1beta1.ServiceSpec) and the three defaults of one service.
NewServiceSpec == [Replicas |-> nil, Port |-> nil, MembershipPort |-> nil]
\* Mutant of serviceFilled: the replica count is written whatever the spec
\* holds.
serviceFilled_ReplicasForced(svc, port, membershipPort) ==
  <<[Replicas |-> <<1>>,
     Port |-> PointerOr(svc.Port, port),
     MembershipPort |-> PointerOr(svc.MembershipPort, membershipPort)]>>

serviceFilled(svc, port, membershipPort) ==
  <<[Replicas |-> PointerOr(svc.Replicas, 1),
     Port |-> PointerOr(svc.Port, port),
     MembershipPort |-> PointerOr(svc.MembershipPort, membershipPort)]>>
serviceDefaults(ptr, port, membershipPort) ==
  serviceFilled(PointerOr(ptr, NewServiceSpec)[1], port, membershipPort)

\* new(v1beta1.TemporalServicesSpec) and the defaults of the four services.
NewTemporalServicesSpec ==
  [Frontend |-> nil, History |-> nil, Matching |-> nil, Worker |-> nil]
servicesFilled(services) ==
  <<[Frontend |-> serviceDefaults(services.Frontend, 7233, 6933),
     History |-> serviceDefaults(services.History, 7234, 6934),
     Matching |-> serviceDefaults(services.Matching, 7235, 6935),
     Worker |-> serviceDefaults(services.Worker, 7239, 6939)]>>
servicesDefaults(ptr) ==
  servicesFilled(PointerOr(ptr, NewTemporalServicesSpec)[1])

\* The loop over spec.datastores: the SQL block is reached through its
\* pointer, so the assignment is made to the cluster's own datastore.
datastoreDefaults(datastore) ==
  IF datastore.SQL # nil
  THEN [datastore EXCEPT
          !.SQL = <<[ConnectProtocol |->
                       StringOr(datastore.SQL[1].ConnectProtocol, "tcp")]>>]
  ELSE datastore
datastoresDefaults(datastores) ==
  [i \in DOMAIN datastores |-> datastoreDefaults(datastores[i])]

persistenceDefaults(persistence) ==
  [persistence EXCEPT
     !.VisibilityStore = IF @ = "" THEN persistence.DefaultStore ELSE @]

NewTemporalUISpec == [Version |-> "", Image |-> ""]
uiFilled(ui) ==
  <<[Version |-> StringOr(ui.Version, defaultTemporalUIVersion),
     Image |-> StringOr(ui.Image, defaultTemporalUIImage)]>>
uiDefaults(ptr) == uiFilled(PointerOr(ptr, NewTemporalUISpec)[1])

NewTemporalAdminToolsSpec == [Image |-> ""]
adminToolsFilled(adminTools) ==
  <<[Image |-> StringOr(adminTools.Image, defaultTemporalAdmintoolsImage)]>>
adminToolsDefaults(ptr) ==
  adminToolsFilled(PointerOr(ptr, NewTemporalAdminToolsSpec)[1])

\* cluster.MTLSWithCertManagerEnabled()
MTLSWithCertManagerEnabled(mtls) ==
  mtls # nil /\ mtls[1].Provider = "cert-manager"

NewCertificatesDurationSpec ==
  [RootCACertificate |-> nil, IntermediateCAsCertificates |-> nil,
   ClientCertificates |-> nil, FrontendCertificate |-> nil,
   InternodeCertificate |-> nil]
certificatesDurationFilled(d) ==
  <<[RootCACertificate |-> PointerOr(d.RootCACertificate, 87600),
     IntermediateCAsCertificates |->
       PointerOr(d.IntermediateCAsCertificates, 43830),
     ClientCertificates |-> PointerOr(d.ClientCertificates, 8766),
     FrontendCertificate |-> PointerOr(d.FrontendCertificate, 8766),
     InternodeCertificate |-> PointerOr(d.InternodeCertificate, 8766)]>>
mtlsDefaults(mtls) ==
  IF MTLSWithCertManagerEnabled(mtls)
  THEN <<[mtls[1] EXCEPT
            !.RefreshInterval = PointerOr(@, 1),
            !.CertificatesDuration =
              certificatesDurationFilled(
                PointerOr(@, NewCertificatesDurationSpec)[1])]>>
  ELSE mtls

\* The cluster spec after the assignments of reconcileDefaults.
defaultsApplied(spec) ==
  [Version |-> StringOr(spec.Version, defaultTemporalVersion),
   Image |-> StringOr(spec.Image, defaultTemporalImage),
   Services |-> servicesDefaults(spec.Services),
   Datastores |-> datastoresDefaults(spec.Datastores),
   Persistence |-> persistenceDefaults(spec.Persistence),
   UI |-> uiDefaults(spec.UI),
   AdminTools |-> adminToolsDefaults(spec.AdminTools),
   MTLS |-> mtlsDefaults(spec.MTLS)]

\* Mutant of reconcileDefaults: the version default is written whatever the
\* spec holds.
reconcileDefaults_VersionForced(before) ==
  [spec |-> [defaultsApplied(before) EXCEPT
               !.Version = defaultTemporalVersion],
   changed |-> [defaultsApplied(before) EXCEPT
                  !.Version = defaultTemporalVersion] # before]

\* reconcileDefaults: the spec it leaves in the cluster and the value it
\* returns, !reflect.DeepEqual(before.Spec, cluster.Spec).
reconcileDefaults(before) ==
  [spec |-> defaultsApplied(before),
   changed |-> defaultsApplied(before) # before]

\* --------------------------------------------------------- service builders

\* A Go map[string]string is a function from its keys to their values.
NoEntries == [k \in {} |-> ""]
Entry(k, v) == [x \in {k} |-> v]

\* Mutant of MergeTwo: a key the first map holds keeps its value.
MergeTwo_FirstWins(a, b) ==
  [k \in DOMAIN a \cup DOMAIN b |-> IF k \in DOMAIN a THEN a[k] ELSE b[k]]

\* metadata.Merge of two maps, and of a list of maps: the union of the
\* maps, a later map's value replacing an earlier one's for the same key.
MergeTwo(a, b) ==
  [k \in DOMAIN a \cup DOMAIN b |-> IF k \in DOMAIN b THEN b[k] ELSE a[k]]
RECURSIVE Merge(_)
Merge(maps) ==
  IF maps = <<>> THEN NoEntries
  ELSE MergeTwo(Merge(SubSeq(maps, 1, Len(maps) - 1)), maps[Len(maps)])

\* metadata.GetLabels, GetAnnotations, LabelsSelector, HeadlessLabels
LabelsSelector(instance, serviceName) ==
  MergeTwo(Entry("app.kubernetes.io/name", instance.Name),
           Entry("app.kubernetes.io/component", serviceName))
GetLabels(instance, serviceName, version, labels) ==
  Merge(<<labels, LabelsSelector(instance, serviceName),
          Entry("app.kubernetes.io/version", version)>>)
GetAnnotations(name, annotations) == annotations
HeadlessLabels == Entry("operator.temporal.io/headless", "true")

\* controllerutil.SetControllerReference: [err, refs].  An object that has
\* another controller owner is refused; otherwise the owner's reference is
\* put in place of the one the object has for it, or appended.
OwnerRef(uid, controller) == [UID |-> uid, Controller |-> controller]
SetControllerReference(instance, refs) ==
  IF \E i \in DOMAIN refs : refs[i].Controller /\ refs[i].UID # instance.UID
  THEN [err |-> <<"already owned">>, refs |-> refs]
  ELSE IF \E i \in DOMAIN refs : refs[i].UID = instance.UID
  THEN [err |-> nil,
        refs |-> [i \in DOMAIN refs |->
                    IF refs[i].UID = instance.UID
                    THEN OwnerRef(instance.UID, TRUE) ELSE refs[i]]]
  ELSE [err |-> nil, refs |-> Append(refs, OwnerRef(instance.UID, TRUE))]

\* Update after the fields were written: the owner reference is set, its
\* error wrapped and returned with the object as it is by then.
controllerReferenceSet(service, set) ==
  [object |-> [service EXCEPT !.OwnerReferences = set.refs],
   err |-> IF set.err # nil
           THEN Wrap("failed setting controller reference", set.err)
           ELSE nil]

ServicePort(name, port, targetPort) ==
  [Name |-> name, Protocol |-> "TCP", Port |-> port,
   TargetPort |-> targetPort]

\* Mutant of frontendPorts: the HTTP port is appended to the ports the
\* object has.
frontendPorts_Appending(frontend, ports) ==
  IF frontend.HTTPPort # nil
  THEN ports \o <<ServicePort("grpc-rpc", frontend.Port[1], "rpc"),
                  ServicePort("http", frontend.HTTPPort[1], "http")>>
  ELSE ports \o <<ServicePort("grpc-rpc", frontend.Port[1], "rpc")>>

\* The port list FrontendServiceBuilder.Update writes (ports is the list
\* the object had).
frontendPorts(frontend, ports) ==
  IF frontend.HTTPPort # nil
  THEN <<ServicePort("grpc-rpc", frontend.Port[1], "rpc"),
         ServicePort("http", frontend.HTTPPort[1], "http")>>
  ELSE <<ServicePort("grpc-rpc", frontend.Port[1], "rpc")>>

\* FrontendServiceBuilder.Update: [object, err].
FrontendServiceBuilder_Update(instance, object) ==
  controllerReferenceSet(
    [object EXCEPT
       !.Labels = Merge(<<object.Labels,
                          GetLabels(instance, "frontend", instance.Version,
                                    instance.Labels)>>),
       !.Annotations = Merge(<<object.Annotations,
                               GetAnnotations(instance.Name,
                                              instance.Annotations)>>),
       !.Type = "ClusterIP",
       !.Selector = LabelsSelector(instance, "frontend"),
       !.Ports = frontendPorts(instance.Services.Frontend, object.Ports)],
    SetControllerReference(instance, object.OwnerReferences))

\* HeadlessServiceBuilder.Update: [object, err].
HeadlessServiceBuilder_Update(serviceName, instance, service, object) ==
  controllerReferenceSet(
    [object EXCEPT
       !.Labels = Merge(<<object.Labels,
                          GetLabels(instance, serviceName, instance.Version,
                                    instance.Labels),
                          HeadlessLabels>>),
       !.Annotations = Merge(<<object.Annotations,
                               GetAnnotations(instance.Name,
                                              instance.Annotations)>>),
       !.Type = "ClusterIP",
       !.ClusterIP = "None",
       !.Selector = LabelsSelector(instance, serviceName),
       !.PublishNotReadyAddresses = TRUE,
       !.Ports = <<ServicePort("http-metrics", 9090, "metrics"),
                   ServicePort("tcp-rpc", service.Port[1], "rpc"),
                   ServicePort("tcp-membership", service.MembershipPort[1],
                               "membership")>>],
    SetControllerReference(instance, object.OwnerReferences))

\* The Update of the builder of the given kind.
BuilderUpdate(builder, instance, object) ==
  IF builder = "FrontendService"
  THEN FrontendServiceBuilder_Update(instance, object)
  ELSE HeadlessServiceBuilder_Update("history", instance,
                                     instance.Services.History, object)

\* ------------------------------------------------------------------- state

VARIABLES
  obj,      \* the TemporalNamespace object as the store holds it
  cluster,  \* the referenced TemporalCluster: "absent", "notReady", "ready"
  remote,   \* the Temporal server: [ns: registered, attrs: custom attributes]
  queued,   \* the object's key is in the controller's work queue
  timer,    \* a delayed or rate-limited re-add of the key is pending
  pass,     \* record of the reconcile pass that has just returned
  partial,  \* what a pass whose add request failed had removed, kept
            \* until the next event on the object, its cluster or the server
  propagated,  \* a cluster event given to clusterToNamespacesMapfunc
  defaulted,   \* a cluster spec given to reconcileDefaults
  built        \* a service object given to a builder's Update

vars ==
  <<obj, cluster, remote, queued, timer, pass, partial, propagated,
    defaulted, built>>

\* The variables of the namespace lifecycle, and those of the functions
\* specified on their own.
lifecycleVars == <<obj, cluster, remote, queued, timer, pass, partial>>
functionVars == <<propagated, defaulted, built>>

\* No cluster event was propagated, no cluster spec was defaulted.
NoPropagation ==
  [cluster |-> TheCluster, items |-> {}, listOk |-> TRUE, requests |-> {},
   ran |-> FALSE]
NoDefaults == [before |-> nil, spec |-> nil, changed |-> FALSE, runs |-> 0]
NoBuild ==
  [builder |-> "none", instance |-> nil, observed |-> nil, before |-> nil,
   object |-> nil, err |-> nil, runs |-> 0]

Faults ==
  {"none", "get", "clusterGet", "nsClient", "register", "update",
   "clusterClient", "list", "remove", "add", "delClient", "delete"}

BlankRemote == [ns |-> FALSE, attrs |-> EmptyMap]

\* No pass has left attribute reconciliation half done.
NoPartial == [spec |-> EmptyMap, removed |-> {}]

\* No pass has returned since the last event.
NoPass ==
  [branch |-> "none", pre |-> Gone, mem |-> Gone, result |-> Result(0, nil),
   cluster |-> "absent", remotePre |-> BlankRemote, calls |-> <<>>,
   opened |-> 0, closed |-> 0, set |-> {}, patches |-> 0,
   patch |-> "none", requeue |-> "none", prior |-> NoPartial]

\* The record of half-done attribute reconciliations after a pass that
\* issued calls: a pass whose remove request succeeded and whose add request
\* failed is recorded with its spec mapping and the names it removed; any
\* other pass that listed the server's attributes clears the record.
PartialAfter(calls) ==
  IF /\ \E i \in DOMAIN calls : /\ calls[i].op = "RemoveSearchAttributes"
                                 /\ calls[i].outcome = "ok"
     /\ \E i \in DOMAIN calls : /\ calls[i].op = "AddSearchAttributes"
                                 /\ calls[i].outcome = "error"
  THEN [spec |-> obj.attrs,
        removed |-> calls[CHOOSE i \in DOMAIN calls :
                            calls[i].op = "RemoveSearchAttributes"].names]
  ELSE IF \E i \in DOMAIN calls : /\ calls[i].op = "ListSearchAttributes"
                                  /\ calls[i].outcome = "ok"
  THEN NoPartial
  ELSE partial

\* The controller runtime's decision on a pass's return values: an error is
\* re-added with rate limiting, a positive RequeueAfter is re-added after the
\* delay, anything else is forgotten.
RuntimeRequeue(result) ==
  IF result.err # nil THEN "backoff"
  ELSE IF result.requeueAfter > 0 THEN "after"
  ELSE "none"

\* The store's handling of a written object: an object with a deletion
\* timestamp and no finalizer left is removed.
Persist(ns) ==
  IF ns.deleting /\ ns.finalizers = {} THEN Gone ELSE ns

\* kerrors.NewAggregate([]error{reterr, err}) of the deferred patch.
NewAggregate(reterr, err) == reterr \o err

Init ==
  /\ \E foreign \in BOOLEAN, allow \in BOOLEAN, m \in SpecMaps :
       obj = [exists |-> TRUE, deleting |-> FALSE,
              finalizers |-> IF foreign THEN {ForeignFinalizer} ELSE {},
              allowDeletion |-> allow, attrs |-> m, conditions |-> NoConds]
  /\ cluster \in {"absent", "notReady", "ready"}
  /\ remote \in { r \in [ns : BOOLEAN, attrs : ServerMaps] :
                    /\ cluster = "absent" => ~r.ns
                    /\ ~r.ns => r.attrs = EmptyMap }
  /\ queued = TRUE
  /\ timer = FALSE
  /\ pass = NoPass
  /\ partial = NoPartial
  /\ propagated = NoPropagation
  /\ defaulted = NoDefaults
  /\ built = NoBuild

\* Mutant of ReturnedResult: the deferred patch's error is dropped.
ReturnedResult_PatchErrorDropped(out, rejected) == out.result

\* The error Reconcile returns: the deferred patch's error is aggregated
\* with the error of the pass.
ReturnedResult(out, rejected) ==
  Result(out.result.requeueAfter,
         IF rejected
         THEN NewAggregate(out.result.err, <<"patch rejected">>)
         ELSE out.result.err)

\* Mutant of Patched: the deferred patch is not run.
Patched_NotRun(out, patchOk) ==
  /\ obj' = obj
  /\ remote' = out.remote
  /\ timer' = (timer \/ RuntimeRequeue(out.result) # "none")
  /\ pass' = [branch |-> out.branch, pre |-> obj, mem |-> out.ns,
              result |-> out.result,
              cluster |-> cluster, remotePre |-> remote,
              calls |-> out.calls, opened |-> out.opened,
              closed |-> out.closed, set |-> out.set,
              patches |-> 0, patch |-> "none",
              requeue |-> RuntimeRequeue(out.result), prior |-> partial]
  /\ partial' = PartialAfter(out.calls)

\* The deferred patch and the return to the runtime, for a pass whose logic
\* ended as out.  The patch helper sends a patch when the in-memory object
\* differs from the snapshot taken at the start of the pass; the store
\* accepts it (patchOk) or rejects it, leaving the stored object as it was.
Patched(out, patchOk) ==
  /\ obj' = IF out.ns # obj /\ patchOk THEN Persist(out.ns) ELSE obj
  /\ remote' = out.remote
  /\ timer' = (timer \/
               RuntimeRequeue(
                 ReturnedResult(out, out.ns # obj /\ ~patchOk)) # "none")
  /\ pass' = [branch |-> out.branch, pre |-> obj, mem |-> out.ns,
              result |-> ReturnedResult(out, out.ns # obj /\ ~patchOk),
              cluster |-> cluster, remotePre |-> remote,
              calls |-> out.calls, opened |-> out.opened,
              closed |-> out.closed, set |-> out.set,
              patches |-> 1,
              patch |-> IF out.ns = obj THEN "none"
                        ELSE IF patchOk THEN "ok" ELSE "rejected",
              requeue |-> RuntimeRequeue(
                            ReturnedResult(out, out.ns # obj /\ ~patchOk)),
              prior |-> partial]
  /\ partial' = PartialAfter(out.calls)

\* One reconcile pass: Reconcile from its first line to its return, with the
\* deferred patch.  fault names the call of the pass that fails (at most one
\* call can fail before the pass returns), first the entry Go's map
\* iteration favours, patchOk whether the store accepts the patch.
Reconcile ==
  /\ queued
  /\ \E fault \in Faults, patchOk \in BOOLEAN,
        first \in Favoured(obj.attrs) :
       IF fault = "get"
       THEN /\ pass' = [NoPass EXCEPT !.branch = "fetchErr", !.pre = obj,
                          !.mem = obj, !.result = Result(0, TransportErr),
                          !.cluster = cluster, !.remotePre = remote,
                          !.requeue = "backoff"]
            /\ timer' = TRUE
            /\ UNCHANGED <<obj, remote, partial>>
       ELSE IF ~obj.exists
       THEN /\ pass' = [NoPass EXCEPT !.branch = "absent",
                          !.cluster = cluster, !.remotePre = remote]
            /\ UNCHANGED <<obj, remote, timer, partial>>
       ELSE Patched(ReconcileLogic(obj, cluster, remote, fault, first),
                    patchOk)
  /\ queued' = FALSE
  /\ UNCHANGED cluster
  /\ UNCHANGED functionVars

\* The delayed or rate-limited re-add fires.
RequeueFires ==
  /\ timer
  /\ timer' = FALSE
  /\ queued' = TRUE
  /\ pass' = NoPass
  /\ UNCHANGED <<obj, cluster, remote, partial>>
  /\ UNCHANGED functionVars

\* The user changes spec.allowDeletion (generation changes: enqueued).
SetAllowDeletion ==
  /\ obj.exists
  /\ obj' = [obj EXCEPT !.allowDeletion = ~@]
  /\ queued' = TRUE
  /\ pass' = NoPass
  /\ partial' = NoPartial
  /\ UNCHANGED <<cluster, remote, timer>>
  /\ UNCHANGED functionVars

\* The user changes spec.customSearchAttributes.
SetCustomSearchAttributes ==
  /\ obj.exists
  /\ \E m \in SpecMaps \ {obj.attrs} : obj' = [obj EXCEPT !.attrs = m]
  /\ queued' = TRUE
  /\ pass' = NoPass
  /\ partial' = NoPartial
  /\ UNCHANGED <<cluster, remote, timer>>
  /\ UNCHANGED functionVars

\* The user deletes the object: the store sets the deletion timestamp, or
\* removes the object at once when it has no finalizer.
DeleteObject ==
  /\ obj.exists /\ ~obj.deleting
  /\ obj' = Persist([obj EXCEPT !.deleting = TRUE])
  /\ queued' = TRUE
  /\ pass' = NoPass
  /\ partial' = NoPartial
  /\ UNCHANGED <<cluster, remote, timer>>
  /\ UNCHANGED functionVars

\* Another controller removes its own finalizer.
ForeignFinalizerRemoved ==
  /\ obj.exists /\ ForeignFinalizer \in obj.finalizers
  /\ obj' = Persist(RemoveFinalizer(obj, ForeignFinalizer))
  /\ pass' = NoPass
  /\ partial' = NoPartial
  /\ UNCHANGED <<cluster, remote, queued, timer>>
  /\ UNCHANGED functionVars

\* The TemporalNamespace objects in the store.
Items == IF obj.exists THEN {TheNamespace} ELSE {}

\* An event on the referenced cluster (created, readiness changed, deleted).
\* A deleted cluster takes the remote server with it.
ClusterEvent ==
  /\ \E c \in {"absent", "notReady", "ready"} \ {cluster} :
       /\ cluster' = c
       /\ remote' = IF c = "absent" THEN BlankRemote ELSE remote
  /\ \E listOk \in BOOLEAN :
       queued' = (queued \/
                    ObjectKeyFromObject(TheNamespace)
                      \in clusterToNamespacesMapfunc(TheCluster, Items,
                                                     listOk))
  /\ pass' = NoPass
  /\ partial' = NoPartial
  /\ UNCHANGED <<obj, timer>>
  /\ UNCHANGED functionVars

\* Someone else changes the namespace's custom attributes on the server.
RemoteDrift ==
  /\ remote.ns
  /\ \E m \in ServerMaps \ {remote.attrs} :
       remote' = [remote EXCEPT !.attrs = m]
  /\ pass' = NoPass
  /\ partial' = NoPartial
  /\ UNCHANGED <<obj, cluster, queued, timer>>
  /\ UNCHANGED functionVars

Next ==
  \/ Reconcile
  \/ RequeueFires
  \/ SetAllowDeletion
  \/ SetCustomSearchAttributes
  \/ DeleteObject
  \/ ForeignFinalizerRemoved
  \/ ClusterEvent
  \/ RemoteDrift

Spec == Init /\ [][Next]_vars

\* ------------------------------------- attribute reconciliation specification

\* The namespace object is live, its cluster ready; the spec's and the
\* server's attribute mappings range over AttrNumNames names.
AttrInit ==
  /\ \E m \in AttrSpecMaps :
       obj = [exists |-> TRUE, deleting |-> FALSE, finalizers |-> {},
              allowDeletion |-> TRUE, attrs |-> m, conditions |-> NoConds]
  /\ cluster = "ready"
  /\ remote \in { r \in [ns : BOOLEAN, attrs : AttrServerMaps] :
                    ~r.ns => r.attrs = EmptyMap }
  /\ queued = TRUE
  /\ timer = FALSE
  /\ pass = NoPass
  /\ partial = NoPartial
  /\ propagated = NoPropagation
  /\ defaulted = NoDefaults
  /\ built = NoBuild

AttrNext == Reconcile \/ RequeueFires

AttrSpec == AttrInit /\ [][AttrNext]_vars

\* ---------------------------------------------- propagator specification

\* The TemporalNamespace objects the store can hold: up to NumDependents
\* keys, each absent or present with one of the cluster references.
DependentKeys ==
  <<[namespace |-> "default", name |-> "orders"],
    [namespace |-> "team", name |-> "billing"],
    [namespace |-> "team", name |-> "orders"],
    [namespace |-> "default", name |-> "billing"]>>
ClusterRefs ==
  {[namespace |-> "", name |-> ""]}
    \cup [namespace : {"", "default", "team"}, name : {"prod", "dev"}]
ClusterKeys == [namespace : {"default", "team"}, name : {"prod"}]
ItemSets ==
  { { [namespace |-> DependentKeys[i].namespace,
       name |-> DependentKeys[i].name,
       clusterRef |-> f[i]] : i \in present } :
      present \in SUBSET (1..NumDependents),
      f \in [1..NumDependents -> ClusterRefs] }

PropagatorInit ==
  /\ obj = Gone
  /\ cluster = "absent"
  /\ remote = BlankRemote
  /\ queued = FALSE
  /\ timer = FALSE
  /\ pass = NoPass
  /\ partial = NoPartial
  /\ defaulted = NoDefaults
  /\ built = NoBuild
  /\ \E cl \in ClusterKeys, items \in ItemSets :
       propagated = [NoPropagation EXCEPT !.cluster = cl, !.items = items]

\* An event on the cluster reaches clusterToNamespacesMapfunc.
Propagate ==
  /\ ~propagated.ran
  /\ \E listOk \in BOOLEAN :
       propagated' =
         [propagated EXCEPT
            !.listOk = listOk,
            !.requests = clusterToNamespacesMapfunc(
                           propagated.cluster, propagated.items, listOk),
            !.ran = TRUE]
  /\ UNCHANGED lifecycleVars
  /\ UNCHANGED <<defaulted, built>>

PropagatorNext == Propagate

PropagatorSpec == PropagatorInit /\ [][PropagatorNext]_vars

\* ------------------------------------------------ defaults specification

\* The cluster specs given to reconcileDefaults.
ServiceSpecs_Full ==
  <<[Replicas |-> <<3>>, Port |-> <<7000>>, MembershipPort |-> <<6000>>]>>
ServiceSpecs ==
  { nil, <<NewServiceSpec>>,
    <<[Replicas |-> <<0>>, Port |-> nil, MembershipPort |-> <<6000>>]>>,
    ServiceSpecs_Full }
ServicesSpecs ==
  {nil} \cup
  { <<s>> : s \in [Frontend : ServiceSpecs,
                   History : {nil, ServiceSpecs_Full},
                   Matching : {<<NewServiceSpec>>, ServiceSpecs_Full},
                   Worker : {ServiceSpecs_Full}] }
DatastoreSpecs ==
  { [Name |-> "default", SQL |-> nil],
    [Name |-> "default", SQL |-> <<[ConnectProtocol |-> ""]>>],
    [Name |-> "default", SQL |-> <<[ConnectProtocol |-> "unix"]>>] }
DatastoresSpecs ==
  UNION { [1..n -> DatastoreSpecs] : n \in 0..MaxDatastores }
PersistenceSpecs ==
  [DefaultStore : {"", "default"}, VisibilityStore : {"", "visibility"}]
UISpecs ==
  { nil, <<NewTemporalUISpec>>, <<[Version |-> "2.9.0", Image |-> ""]>>,
    <<[Version |-> "2.9.0", Image |-> "example/ui"]>> }
AdminToolsSpecs ==
  { nil, <<NewTemporalAdminToolsSpec>>, <<[Image |-> "example/tools"]>> }
MTLSSpecs ==
  { nil,
    <<[Provider |-> "linkerd", RefreshInterval |-> nil,
       CertificatesDuration |-> nil]>>,
    <<[Provider |-> "cert-manager", RefreshInterval |-> nil,
       CertificatesDuration |-> nil]>>,
    <<[Provider |-> "cert-manager", RefreshInterval |-> <<2>>,
       CertificatesDuration |->
         <<[NewCertificatesDurationSpec EXCEPT
              !.ClientCertificates = <<100>>]>>]>>,
    <<[Provider |-> "cert-manager", RefreshInterval |-> <<2>>,
       CertificatesDuration |->
         <<[RootCACertificate |-> <<500>>,
            IntermediateCAsCertificates |-> <<400>>,
            ClientCertificates |-> <<100>>,
            FrontendCertificate |-> <<100>>,
            InternodeCertificate |-> <<100>>]>>]>> }
ClusterSpecs ==
  [Version : {"", "1.20.0"}, Image : {"", "example/server"},
   Services : ServicesSpecs, Datastores : DatastoresSpecs,
   Persistence : PersistenceSpecs, UI : UISpecs,
   AdminTools : AdminToolsSpecs, MTLS : MTLSSpecs]

DefaultsInit ==
  /\ obj = Gone
  /\ cluster = "absent"
  /\ remote = BlankRemote
  /\ queued = FALSE
  /\ timer = FALSE
  /\ pass = NoPass
  /\ partial = NoPartial
  /\ propagated = NoPropagation
  /\ built = NoBuild
  /\ \E spec \in ClusterSpecs :
       defaulted = [NoDefaults EXCEPT !.before = spec, !.spec = spec]

\* One call of reconcileDefaults on the cluster.
ReconcileDefaults ==
  /\ defaulted.runs < MaxRuns
  /\ defaulted' =
       [before |-> defaulted.spec,
        spec |-> reconcileDefaults(defaulted.spec).spec,
        changed |-> reconcileDefaults(defaulted.spec).changed,
        runs |-> defaulted.runs + 1]
  /\ UNCHANGED lifecycleVars
  /\ UNCHANGED <<propagated, built>>

DefaultsNext == ReconcileDefaults

DefaultsSpec == DefaultsInit /\ [][DefaultsNext]_vars

\* ------------------------------------------------- builder specification

\* The TemporalCluster given to the builders (its spec already defaulted)
\* and the Service objects they are given.
BuilderNames == {"FrontendService", "HeadlessService"}
Instances ==
  [Name : {"prod"}, UID : {"uid-prod"}, Version : {"1.20.0"},
   Labels : {NoEntries, Entry("team", "payments")},
   Annotations : {NoEntries, Entry("owner", "platform")},
   Services :
     [Frontend : [Port : {<<7233>>}, HTTPPort : {nil, <<7243>>},
                  MembershipPort : {<<6933>>}],
      History : [Port : {<<7234>>, <<7000>>}, HTTPPort : {nil},
                 MembershipPort : {<<6934>>}]]]
ObservedLabels ==
  { NoEntries, Entry("external", "kept"),
    MergeTwo(Entry("external", "kept"),
             Entry("app.kubernetes.io/version", "1.17.4")),
    MergeTwo(Entry("team", "other"),
             Entry("app.kubernetes.io/component", "stale")) }
ObservedAnnotations ==
  { NoEntries, MergeTwo(Entry("owner", "nobody"), Entry("note", "kept")) }
ObservedPorts ==
  { <<>>,
    <<ServicePort("http", 7243, "http"),
      ServicePort("grpc-rpc", 7233, "rpc")>>,
    <<ServicePort("grpc-rpc", 7233, "rpc"),
      ServicePort("http", 7243, "http"),
      ServicePort("debug", 8080, "debug")>> }
ObservedOwners ==
  { <<>>, <<OwnerRef("uid-prod", TRUE)>>,
    <<OwnerRef("uid-other", FALSE), OwnerRef("uid-prod", FALSE)>>,
    <<OwnerRef("uid-other", TRUE)>> }
Services ==
  [Labels : ObservedLabels, Annotations : ObservedAnnotations,
   Type : {"", "NodePort"}, ClusterIP : {"", "10.0.0.7"},
   Selector : {NoEntries, Entry("app.kubernetes.io/name", "stale")},
   PublishNotReadyAddresses : {FALSE},
   Ports : ObservedPorts, OwnerReferences : ObservedOwners]

BuilderInit ==
  /\ obj = Gone
  /\ cluster = "absent"
  /\ remote = BlankRemote
  /\ queued = FALSE
  /\ timer = FALSE
  /\ pass = NoPass
  /\ partial = NoPartial
  /\ propagated = NoPropagation
  /\ defaulted = NoDefaults
  /\ \E b \in BuilderNames, instance \in Instances, service \in Services :
       built = [NoBuild EXCEPT !.builder = b, !.instance = instance,
                               !.observed = service, !.before = service,
                               !.object = service]

\* One call of the builder's Update on the object.
Update ==
  /\ built.runs < MaxUpdates
  /\ built' =
       [built EXCEPT
          !.before = built.object,
          !.object = BuilderUpdate(built.builder, built.instance,
                                   built.object).object,
          !.err = BuilderUpdate(built.builder, built.instance,
                                built.object).err,
          !.runs = built.runs + 1]
  /\ UNCHANGED lifecycleVars
  /\ UNCHANGED <<propagated, defaulted>>

BuilderNext == Update

BuilderSpec == BuilderInit /\ [][BuilderNext]_vars

\* ------------------------------------------------------------------ claims

\* A pass has just returned and it fetched the object.
PassRan == pass.branch \notin {"none", "absent", "fetchErr"}

\* The remote operations the pass issued, and whether one had an outcome.
IssuedOps == { pass.calls[i].op : i \in DOMAIN pass.calls }
Issued(op, outcome) ==
  \E i \in DOMAIN pass.calls :
    pass.calls[i].op = op /\ pass.calls[i].outcome = outcome

\* The pass took the deletion finalizer off the in-memory object.
FinalizerRemoved ==
  /\ DeletionFinalizer \in pass.pre.finalizers
  /\ DeletionFinalizer \notin pass.mem.finalizers

\* The pass put the deletion finalizer on the in-memory object.
FinalizerAdded ==
  /\ DeletionFinalizer \notin pass.pre.finalizers
  /\ DeletionFinalizer \in pass.mem.finalizers

\* The spec mapping of the pass, entry by entry: resolvable entries and
\* their types.
Resolvable(m) ==
  { n \in DOMAIN m : searchAttributeTypeStringToEnum(m[n]).err = nil }
TypeOf(m, n) == searchAttributeTypeStringToEnum(m[n]).value

\* Names the spec and the server both hold, with different types.
ConflictNames(m, r) ==
  { n \in Resolvable(m) \cap DOMAIN r : TypeOf(m, n) # r[n] }

\* The pass reached the comparison of the two mappings.
Listed == Issued("ListSearchAttributes", "ok")

\* C1: in every pass of a namespace whose referenced cluster exists but is
\* not ready, no remote call of any kind is issued and no client is opened,
\* with or without a deletion timestamp on the object.
C1_NoRemoteCallWhileClusterNotReady ==
  (pass.branch # "none" /\ pass.cluster = "notReady") =>
    /\ pass.calls = <<>>
    /\ pass.opened = 0
    /\ remote = pass.remotePre

\* C1 witness: a pass on an object that has a deletion timestamp and the
\* deletion finalizer, with the cluster present and not ready.
C1_Witness ==
  /\ pass.branch = "notReady"
  /\ pass.cluster = "notReady"
  /\ pass.pre.deleting
  /\ DeletionFinalizer \in pass.pre.finalizers
  /\ pass.remotePre.ns

\* C2: when a name is in the spec mapping and in the remote mapping with
\* different types, the pass issues no remove and no add request (even when
\* there is something to remove or to add), leaves the remote mapping as it
\* was, and ends in the Error branch with the ReconcileError condition set.
C2_ConflictIssuesNoRequest ==
  (Listed /\ ConflictNames(pass.pre.attrs, pass.remotePre.attrs) # {}) =>
    /\ "RemoveSearchAttributes" \notin IssuedOps
    /\ "AddSearchAttributes" \notin IssuedOps
    /\ remote.attrs = pass.remotePre.attrs
    /\ pass.branch = "error:attributes"
    /\ "ReconcileError" \in pass.set
    /\ pass.mem.conditions["ReconcileError"].status = "True"
    /\ pass.mem.conditions["ReconcileError"].message # nil

\* C2 witness: a conflict on one name while another name is only on the
\* server and a third only in the spec.
C2_Witness ==
  /\ Listed
  /\ ConflictNames(pass.pre.attrs, pass.remotePre.attrs) # {}
  /\ (DOMAIN pass.remotePre.attrs) \ (DOMAIN pass.pre.attrs) # {}
  /\ (DOMAIN pass.pre.attrs) \ (DOMAIN pass.remotePre.attrs) # {}
  /\ Resolvable(pass.pre.attrs) = DOMAIN pass.pre.attrs
  /\ pass.branch = "error:attributes"

\* The pass compared a fully resolvable spec mapping with a remote mapping
\* free of conflicts, and no request it made failed.
CleanAttributePass ==
  /\ Listed
  /\ Resolvable(pass.pre.attrs) = DOMAIN pass.pre.attrs
  /\ ConflictNames(pass.pre.attrs, pass.remotePre.attrs) = {}
  /\ ~Issued("RemoveSearchAttributes", "error")
  /\ ~Issued("AddSearchAttributes", "error")

\* C3: for a resolvable spec mapping M and a remote mapping R without
\* conflict, when the requests succeed, the remote mapping after the pass is
\* M (translated); the remove request names exactly the names of R not in M,
\* the add request carries exactly the entries of M not in R, a request is
\* made only for a non-empty set, and shared names are in neither.
C3_RemoteEqualsSpecAfterPass ==
  CleanAttributePass =>
    LET M == pass.pre.attrs
        R == pass.remotePre.attrs
        rm == { i \in DOMAIN pass.calls :
                  pass.calls[i].op = "RemoveSearchAttributes" }
        ad == { i \in DOMAIN pass.calls :
                  pass.calls[i].op = "AddSearchAttributes" }
    IN /\ pass.branch = "success"
       /\ DOMAIN remote.attrs = DOMAIN M
       /\ \A n \in DOMAIN M : remote.attrs[n] = TypeOf(M, n)
       /\ Cardinality(rm) = (IF (DOMAIN R) \ (DOMAIN M) = {} THEN 0 ELSE 1)
       /\ Cardinality(ad) = (IF (DOMAIN M) \ (DOMAIN R) = {} THEN 0 ELSE 1)
       /\ \A i \in rm : pass.calls[i].names = (DOMAIN R) \ (DOMAIN M)
       /\ \A i \in ad :
            /\ DOMAIN pass.calls[i].attrs = (DOMAIN M) \ (DOMAIN R)
            /\ \A n \in DOMAIN pass.calls[i].attrs :
                 pass.calls[i].attrs[n] = TypeOf(M, n)

\* C3 witness: a successful pass with one name on both sides, one only on
\* the server and one only in the spec.
C3_Witness ==
  /\ CleanAttributePass
  /\ pass.branch = "success"
  /\ (DOMAIN pass.remotePre.attrs) \cap (DOMAIN pass.pre.attrs) # {}
  /\ (DOMAIN pass.remotePre.attrs) \ (DOMAIN pass.pre.attrs) # {}
  /\ (DOMAIN pass.pre.attrs) \ (DOMAIN pass.remotePre.attrs) # {}

\* The pass issued a remote delete-namespace call that succeeded or that
\* reported namespace-not-found.
RemoteDeleteDone ==
  Issued("DeleteNamespace", "ok") \/ Issued("DeleteNamespace", "NotFound")

\* C4 (as claimed): a pass removes the deletion finalizer only when it issued
\* a remote delete-namespace call that succeeded or reported not-found.
C4_RemovedOnlyAfterRemoteDelete ==
  FinalizerRemoved => RemoteDeleteDone

\* C4 (amended): a pass removes the deletion finalizer only when it issued a
\* remote delete-namespace call that succeeded or reported not-found, or
\* when the object has a deletion timestamp and its referenced cluster is
\* absent from the store (then without any remote call).
C4_RemovedAfterRemoteDeleteOrClusterGone ==
  FinalizerRemoved =>
    \/ RemoteDeleteDone /\ pass.branch = "deleted"
    \/ /\ pass.branch = "clusterGone"
       /\ pass.cluster = "absent"
       /\ pass.pre.deleting
       /\ pass.calls = <<>>

\* C4 witness: the finalizer is removed after the remote reported
\* namespace-not-found.
C4_Witness ==
  /\ FinalizerRemoved
  /\ Issued("DeleteNamespace", "NotFound")
  /\ pass.branch = "deleted"

\* C5 (as claimed): after every completed pass of an object still in the
\* store, the object carries the deletion finalizer iff its spec has
\* allowDeletion=true (its deletion not being complete, as it is in the
\* store).
C5_FinalizerIffAllowDeletion ==
  (PassRan /\ obj.exists) =>
    (DeletionFinalizer \in obj.finalizers <=> obj.allowDeletion)

\* A pass that reached the finalizer-ensure step of Reconcile.
ReachedEnsure ==
  pass.branch \in {"error:nsClient", "error:register", "error:update",
                   "error:attributes", "success"}

ClusterGonePass ==
  /\ PassRan
  /\ pass.branch # "error:clusterGet"
  /\ pass.cluster = "absent"
  /\ pass.pre.deleting

\* What C7 says of the pass apart from its return values and its persistence.
ClusterGoneLogic ==
  /\ pass.branch = "clusterGone"
  /\ DeletionFinalizer \notin pass.mem.finalizers
  /\ pass.mem.finalizers = pass.pre.finalizers \ {DeletionFinalizer}
  /\ pass.calls = <<>>
  /\ pass.opened = 0
  /\ remote = pass.remotePre
  /\ pass.set = {}
  /\ pass.mem.conditions = pass.pre.conditions

\* No error, no requeue, and the finalizer removal is in the store.
ClusterGoneReturnsClean ==
  /\ pass.result = Result(0, nil)
  /\ pass.requeue = "none"
  /\ DeletionFinalizer \notin obj.finalizers
  /\ obj = Persist(pass.mem)

\* C7 (as claimed): a pass on an object with a deletion timestamp whose
\* cluster is absent removes the finalizer, issues no remote call, sets no
\* error condition, returns no error and no requeue, and the removal is
\* persisted.
C7_ClusterGoneDropsFinalizer ==
  ClusterGonePass => (ClusterGoneLogic /\ ClusterGoneReturnsClean)

\* C7 (amended): the same, the return values and the persistence holding
\* when the store accepts the end-of-pass patch; when the store rejects it,
\* the pass returns the patch error, is re-added with backoff, and the
\* stored object keeps its finalizers.
C7_ClusterGoneDropsFinalizerUnlessPatchRejected ==
  ClusterGonePass =>
    /\ ClusterGoneLogic
    /\ pass.patch # "rejected" => ClusterGoneReturnsClean
    /\ pass.patch = "rejected" =>
         /\ pass.result.err # nil
         /\ pass.requeue = "backoff"
         /\ obj = pass.pre

\* C7 witness: the finalizer was the object's last one, the patch was
\* accepted and the store removed the object.
C7_Witness ==
  /\ ClusterGonePass
  /\ DeletionFinalizer \in pass.pre.finalizers
  /\ pass.patch = "ok"
  /\ ~obj.exists

\* C8: when register reports already-exists, the next call is an update, and
\* after a successful update the pass goes on to attribute reconciliation
\* (it ends in success or on an attribute error, never on a registration
\* error); when register fails otherwise, the pass ends in the Error branch
\* with the register call as its only call; when the fallback update fails,
\* the pass ends in the Error branch with the update as its last call; in
\* both failures no attribute call is made and Ready is not set.
C8_AlreadyExistsFallsBackToUpdate ==
  /\ \A i \in DOMAIN pass.calls :
       (pass.calls[i].op = "Register"
          /\ pass.calls[i].outcome = "AlreadyExists") =>
         /\ i + 1 \in DOMAIN pass.calls
         /\ pass.calls[i + 1].op = "Update"
  /\ (Issued("Register", "AlreadyExists") /\ Issued("Update", "ok")) =>
       /\ pass.branch \in {"success", "error:attributes"}
       /\ pass.branch = "success" => "ReconcileError" \notin pass.set
  /\ (Issued("Register", "ok") \/ Issued("Update", "ok")) =>
       pass.branch \in {"success", "error:attributes"}
  /\ Issued("Register", "error") =>
       /\ pass.branch = "error:register"
       /\ pass.calls = <<SimpleCall("Register", "error")>>
       /\ pass.set = {"ReconcileError"}
       /\ pass.mem.conditions["Ready"] = pass.pre.conditions["Ready"]
  /\ Issued("Update", "error") =>
       /\ pass.branch = "error:update"
       /\ pass.calls = <<SimpleCall("Register", "AlreadyExists"),
                         SimpleCall("Update", "error")>>
       /\ pass.set = {"ReconcileError"}
       /\ pass.mem.conditions["Ready"] = pass.pre.conditions["Ready"]
  /\ "Update" \in IssuedOps => Issued("Register", "AlreadyExists")

\* C8 witness: register reported already-exists, the update succeeded and the
\* pass ended in success.
C8_Witness ==
  /\ Issued("Register", "AlreadyExists")
  /\ Issued("Update", "ok")
  /\ pass.branch = "success"
  /\ pass.mem.conditions["ReconcileError"].status = "absent"

\* C9 (as claimed): a pass that ends in the Error branch is run again without
\* any external event: its return values make the runtime re-add the key.
C9_ErrorBranchIsRequeued ==
  pass.branch \in ErrorBranches => pass.requeue # "none"

\* C10: a pass that ends in the Error branch leaves every finalizer that was
\* on the object, in memory and in the store; after a failed remote
\* delete-namespace call the deletion finalizer is still there.
C10_ErrorPassKeepsFinalizers ==
  /\ pass.branch \in ErrorBranches =>
       /\ pass.pre.finalizers \subseteq pass.mem.finalizers
       /\ obj.exists
       /\ pass.pre.finalizers \subseteq obj.finalizers
  /\ Issued("DeleteNamespace", "error") =>
       /\ pass.branch = "error:delete"
       /\ DeletionFinalizer \in pass.mem.finalizers
       /\ DeletionFinalizer \in obj.finalizers

\* C10 witness: the remote delete-namespace call failed and the patch (of the
\* error condition) was accepted.
C10_Witness ==
  /\ Issued("DeleteNamespace", "error")
  /\ pass.branch = "error:delete"
  /\ pass.patch = "ok"
  /\ pass.remotePre.ns

\* C11 (as claimed): every pass, whichever branch it takes, runs the
\* persistence step exactly once.
C11_EveryPassPatchesOnce ==
  pass.branch # "none" => pass.patches = 1

\* C11 (amended): every pass that fetched the object runs the persistence
\* step exactly once, after the logic of the pass (what an accepted patch
\* stores is the object as the logic left it, a rejected one leaves the
\* store as the pass found it); a pass whose fetch fails or finds no object
\* returns without the persistence step and writes nothing.
C11_FetchedPassPatchesOnceAtEnd ==
  /\ PassRan =>
       /\ pass.patches = 1
       /\ pass.patch = "ok" => obj = Persist(pass.mem)
       /\ pass.patch = "none" => (pass.mem = pass.pre /\ obj = pass.pre)
       /\ pass.patch = "rejected" => obj = pass.pre
  /\ pass.branch \in {"absent", "fetchErr"} =>
       /\ pass.patches = 0
       /\ pass.patch = "none"
       /\ pass.set = {}
       /\ pass.calls = <<>>

\* C11 witness: an Error-branch pass whose patch stored the error condition.
C11_Witness ==
  /\ pass.branch \in ErrorBranches
  /\ pass.patches = 1
  /\ pass.patch = "ok"
  /\ obj.exists
  /\ obj.conditions["ReconcileError"].status = "True"
  /\ pass.pre.conditions["ReconcileError"].status = "absent"

\* C12 (as claimed): every client connection opened during a pass is closed
\* when the pass has returned.
C12_EveryClientClosed ==
  pass.opened = pass.closed

\* C13: when the referenced cluster exists but is not ready, the pass
\* returns the fixed 10 second requeue delay and no error, sets no
\* condition, and leaves the object, in memory and in the store, with the
\* conditions and finalizers it had before the pass.
C13_NotReadyPollsWithoutError ==
  (PassRan /\ pass.cluster = "notReady"
     /\ pass.branch # "error:clusterGet") =>
    /\ pass.branch = "notReady"
    /\ pass.result = Result(10, nil)
    /\ pass.requeue = "after"
    /\ pass.set = {}
    /\ pass.mem.conditions = pass.pre.conditions
    /\ pass.mem.finalizers = pass.pre.finalizers
    /\ pass.patch = "none"
    /\ obj = pass.pre

\* C13 witness: the pass found the cluster not ready while the object
\* carried an error condition of an earlier pass and allowDeletion=true
\* without the finalizer.
C13_Witness ==
  /\ pass.branch = "notReady"
  /\ pass.requeue = "after"
  /\ pass.pre.allowDeletion
  /\ pass.pre.finalizers = {}
  /\ obj.conditions["ReconcileError"].status = "True"

\* The other case of a character, and the case variants of a string.
OtherCase(c) ==
  IF \E i \in 1..Len(UpperChars) : UpperChars[i] = c
  THEN LowerChars[CHOOSE i \in 1..Len(UpperChars) : UpperChars[i] = c]
  ELSE IF \E i \in 1..Len(LowerChars) : LowerChars[i] = c
  THEN UpperChars[CHOOSE i \in 1..Len(LowerChars) : LowerChars[i] = c]
  ELSE c
RECURSIVE CaseVariants(_)
CaseVariants(str) ==
  IF str = <<>> THEN {<<>>}
  ELSE { <<c>> \o rest : c \in {str[1], OtherCase(str[1])},
                         rest \in CaseVariants(Tail(str)) }

\* Every case variant of the enumeration names Int and Text resolves to the
\* type of the name.
CaseInsensitiveLookup ==
  \A e \in { x \in IndexedValueType_shorthandValue : x.k \in {S_Int, S_Text} } :
    \A v \in CaseVariants(e.k) :
      searchAttributeTypeStringToEnum(v) = [err |-> nil, value |-> e.v]

\* The spec mapping of the pass has a type string that matches no
\* enumeration name.
Unresolvable == DOMAIN pass.pre.attrs \ Resolvable(pass.pre.attrs)

\* C14: type strings resolve case-insensitively (every case variant of an
\* enumeration name resolves to the name's type, and the strings of the
\* pass's spec resolve as their canonical names do), and a pass whose spec
\* has an unresolvable type string fails in attribute reconciliation with
\* no remove or add call issued and the remote mapping unchanged, whatever
\* the other entries are.
C14_UnresolvableTypeFailsBeforeRequests ==
  /\ CaseInsensitiveLookup
  /\ \A n \in DOMAIN pass.pre.attrs :
       /\ EqualFold(pass.pre.attrs[n], S_Int) <=>
            searchAttributeTypeStringToEnum(pass.pre.attrs[n])
              = [err |-> nil, value |-> 3]
       /\ EqualFold(pass.pre.attrs[n], S_Text) <=>
            searchAttributeTypeStringToEnum(pass.pre.attrs[n])
              = [err |-> nil, value |-> 1]
  /\ (Listed /\ Unresolvable # {}) =>
       /\ pass.branch = "error:attributes"
       /\ "RemoveSearchAttributes" \notin IssuedOps
       /\ "AddSearchAttributes" \notin IssuedOps
       /\ remote.attrs = pass.remotePre.attrs
       /\ "ReconcileError" \in pass.set
       /\ "Ready" \notin pass.set

\* C14 witness: one entry is unresolvable, another resolves (from a
\* lower-case string) and is missing on the server, and the server holds a
\* name the spec lacks.
C14_Witness ==
  /\ Listed
  /\ Unresolvable # {}
  /\ \E n \in Resolvable(pass.pre.attrs) :
       /\ pass.pre.attrs[n] = S_text
       /\ n \notin DOMAIN pass.remotePre.attrs
  /\ DOMAIN pass.remotePre.attrs \ DOMAIN pass.pre.attrs # {}
  /\ remote.attrs = pass.remotePre.attrs

\* The pass compared the two mappings and a name of the spec has another
\* type on the server.
ConflictPass ==
  /\ Listed
  /\ ConflictNames(pass.pre.attrs, pass.remotePre.attrs) # {}

\* C15 (as claimed): in a pass whose spec declares a type other than the one
\* the server holds for the name, no register, update, add-attributes or
\* remove-attributes call is issued and the remote state is unchanged.
C15_ConflictPassIssuesNoMutation ==
  ConflictPass =>
    /\ IssuedOps \cap {"Register", "Update", "AddSearchAttributes",
                       "RemoveSearchAttributes"} = {}
    /\ remote = pass.remotePre

\* C15 (amended): such a pass fails, and issues no add-attributes and no
\* remove-attributes call, so that the remote attribute mapping is
\* unchanged; its registration step has run before: the register call
\* (answered already-exists) and the update call were issued.
C15_ConflictPassIssuesNoAttributeRequest ==
  ConflictPass =>
    /\ pass.branch = "error:attributes"
    /\ pass.set = {"ReconcileError"}
    /\ IssuedOps \cap {"AddSearchAttributes", "RemoveSearchAttributes"} = {}
    /\ remote.attrs = pass.remotePre.attrs
    /\ remote.ns = pass.remotePre.ns
    /\ pass.calls = <<SimpleCall("Register", "AlreadyExists"),
                      SimpleCall("Update", "ok"),
                      SimpleCall("ListSearchAttributes", "ok")>>

\* C15 witness: the spec declares Amount with an integer type string, the
\* server holds Amount as Text.
C15_Witness ==
  /\ ConflictPass
  /\ "Amount" \in DOMAIN pass.pre.attrs
  /\ EqualFold(pass.pre.attrs["Amount"], S_Int)
  /\ pass.remotePre.attrs = [n \in {"Amount"} |-> 1]
  /\ remote.attrs = pass.remotePre.attrs

\* C16 (as claimed, for one pass): a pass of an object that is not being
\* deleted and that stops at the dependency check (cluster absent or not
\* ready) leaves a later pass pending without any event: the key is in the
\* queue or a re-add is scheduled.
C16_DependencyCheckLeavesPassPending ==
  (pass.branch \in {"notReady", "error:clusterNotFound"}
     /\ ~pass.pre.deleting) =>
    (queued \/ timer)

\* C17: when the store rejects the end-of-pass patch, the pass returns an
\* error that holds the patch error after the error of the pass, the
\* runtime re-adds the key with backoff, and the stored object is the one
\* the pass found: none of the pass's changes to finalizers or conditions
\* is in the store.
C17_RejectedPatchIsReturnedNotStored ==
  pass.patch = "rejected" =>
    /\ pass.result.err # nil
    /\ Len(pass.result.err) >= 1
    /\ pass.result.err[Len(pass.result.err)] = "patch rejected"
    /\ pass.requeue = "backoff"
    /\ timer
    /\ obj = pass.pre
    /\ pass.mem # pass.pre
    /\ obj.finalizers = pass.pre.finalizers
    /\ obj.conditions = pass.pre.conditions

\* C17 witness: the pass deleted the remote namespace and removed the
\* finalizer in memory, the patch was rejected, the stored object still has
\* the finalizer.
C17_Witness ==
  /\ pass.patch = "rejected"
  /\ pass.branch = "deleted"
  /\ DeletionFinalizer \notin pass.mem.finalizers
  /\ DeletionFinalizer \in obj.finalizers
  /\ ~remote.ns

\* The pass ran the deletion branch on an object that has the finalizer and
\* issued the remote delete call.
DeletionPass ==
  /\ pass.pre.deleting
  /\ pass.cluster = "ready"
  /\ DeletionFinalizer \in pass.pre.finalizers
  /\ "DeleteNamespace" \in IssuedOps

\* What C18 says of a failed remote delete.
DeleteFailureSurfaced ==
  Issued("DeleteNamespace", "error") =>
    /\ pass.branch = "error:delete"
    /\ pass.set = {"ReconcileError"}
    /\ pass.mem.conditions["ReconcileError"] =
         [status |-> "True", reason |-> ReconcileErrorReason,
          message |-> Wrap("can't delete namespace", TransportErr)]
    /\ DeletionFinalizer \in pass.mem.finalizers
    /\ DeletionFinalizer \in obj.finalizers

\* C18 (as claimed): in the deletion branch, a remote delete that succeeds
\* or reports not-found removes the finalizer in that pass, and the pass
\* returns with no error condition and no requeue; a remote delete that
\* fails ends the pass in the Error branch, ReconcileError carrying the
\* message, the finalizer still present.
C18_DeletionBranchOutcomes ==
  DeletionPass =>
    /\ RemoteDeleteDone =>
         /\ DeletionFinalizer \notin pass.mem.finalizers
         /\ pass.set = {}
         /\ pass.requeue = "none"
    /\ DeleteFailureSurfaced

\* C18 (amended): the same, the pass returning with no requeue when the
\* store accepts the end-of-pass patch; when the store rejects it the pass
\* returns the patch error and is retried with backoff, the finalizer still
\* on the stored object.
C18_DeletionBranchOutcomesUnlessPatchRejected ==
  DeletionPass =>
    /\ RemoteDeleteDone =>
         /\ pass.branch = "deleted"
         /\ DeletionFinalizer \notin pass.mem.finalizers
         /\ pass.set = {}
         /\ pass.mem.conditions = pass.pre.conditions
         /\ pass.patch # "none"
         /\ pass.patch = "ok" =>
              /\ pass.result = Result(0, nil)
              /\ pass.requeue = "none"
              /\ obj = Persist(pass.mem)
         /\ pass.patch = "rejected" =>
              /\ pass.requeue = "backoff"
              /\ DeletionFinalizer \in obj.finalizers
    /\ DeleteFailureSurfaced

\* C18 witness: the remote delete succeeded, the finalizer was removed and
\* stored, another finalizer keeps the object in the store.
C18_Witness ==
  /\ DeletionPass
  /\ Issued("DeleteNamespace", "ok")
  /\ pass.patch = "ok"
  /\ obj.exists
  /\ obj.finalizers = {ForeignFinalizer}
  /\ pass.requeue = "none"

\* The objects whose cluster reference, resolved to a namespace-qualified
\* key, is the key of the event's cluster.
Referencing ==
  { o \in propagated.items :
      /\ o.clusterRef.name = propagated.cluster.name
      /\ (IF o.clusterRef.namespace = "" THEN o.namespace
          ELSE o.clusterRef.namespace) = propagated.cluster.namespace }

\* The propagator's result is one request per referencing object and
\* nothing else.
RequestsAreTheReferencing ==
  /\ propagated.requests =
       { [namespace |-> o.namespace, name |-> o.name] : o \in Referencing }
  /\ Cardinality(propagated.requests) = Cardinality(Referencing)

\* C19 (as claimed): for a cluster event the propagator returns one request
\* for each object whose resolved reference is the cluster's key, and no
\* other request.
C19_RequestsExactlyTheReferencing ==
  propagated.ran => RequestsAreTheReferencing

\* C19 (amended): the same when the propagator's list call succeeds; when
\* the list call fails the propagator returns no request at all.
C19_RequestsExactlyTheReferencingWhenListed ==
  propagated.ran =>
    /\ propagated.listOk => RequestsAreTheReferencing
    /\ ~propagated.listOk => propagated.requests = {}

\* C19 witness: one object references the cluster through its own
\* namespace, another references a cluster of the same name in the other
\* namespace; only the first one is requested.
C19_Witness ==
  /\ propagated.ran /\ propagated.listOk
  /\ Cardinality(propagated.requests) = 1
  /\ \E o \in propagated.items :
       /\ o.clusterRef = [namespace |-> "", name |-> propagated.cluster.name]
       /\ o.namespace = propagated.cluster.namespace
       /\ [namespace |-> o.namespace, name |-> o.name]
            \in propagated.requests
  /\ \E o \in propagated.items :
       /\ o.clusterRef.name = propagated.cluster.name
       /\ o.clusterRef.namespace \notin {"", propagated.cluster.namespace}
       /\ [namespace |-> o.namespace, name |-> o.name]
            \notin propagated.requests

\* A service block, and a cluster spec, in which reconcileDefaults finds a
\* field to fill.
ServiceUnfilled(ptr) ==
  \/ ptr = nil
  \/ ptr # nil /\ (ptr[1].Replicas = nil \/ ptr[1].Port = nil
                     \/ ptr[1].MembershipPort = nil)
MTLSUnfilled(mtls) ==
  /\ mtls # nil
  /\ mtls[1].Provider = "cert-manager"
  /\ \/ mtls[1].RefreshInterval = nil
     \/ mtls[1].CertificatesDuration = nil
     \/ /\ mtls[1].CertificatesDuration # nil
        /\ \E f \in DOMAIN mtls[1].CertificatesDuration[1] :
             mtls[1].CertificatesDuration[1][f] = nil
Unfilled(spec) ==
  \/ spec.Version = "" \/ spec.Image = ""
  \/ spec.Services = nil
  \/ spec.Services # nil /\ \E f \in DOMAIN spec.Services[1] :
                               ServiceUnfilled(spec.Services[1][f])
  \/ \E i \in DOMAIN spec.Datastores :
       /\ spec.Datastores[i].SQL # nil
       /\ spec.Datastores[i].SQL[1].ConnectProtocol = ""
  \/ spec.Persistence.VisibilityStore = ""
       /\ spec.Persistence.DefaultStore # ""
  \/ spec.UI = nil
  \/ spec.UI # nil /\ (spec.UI[1].Version = "" \/ spec.UI[1].Image = "")
  \/ spec.AdminTools = nil
  \/ spec.AdminTools # nil /\ spec.AdminTools[1].Image = ""
  \/ MTLSUnfilled(spec.MTLS)

\* C20: reconcileDefaults applied to its own result leaves the spec
\* unchanged and returns false; its first application returns true exactly
\* when the spec had a field for it to fill, and leaves none to fill.
C20_DefaultsIdempotent ==
  /\ defaulted.runs >= 1 =>
       /\ defaulted.changed <=> Unfilled(defaulted.before)
       /\ defaulted.changed <=> (defaulted.spec # defaulted.before)
       /\ ~Unfilled(defaulted.spec)
  /\ defaulted.runs >= 2 =>
       /\ defaulted.spec = defaulted.before
       /\ ~defaulted.changed

\* C20 witness: the second application in a row, on a spec the first one
\* had filled (a datastore protocol and the visibility store among the
\* fields), returned false.
C20_Witness ==
  /\ defaulted.runs = 2
  /\ ~defaulted.changed
  /\ defaulted.spec.Version = defaultTemporalVersion
  /\ defaulted.spec.Persistence.VisibilityStore = "default"
  /\ \E i \in DOMAIN defaulted.spec.Datastores :
       defaulted.spec.Datastores[i].SQL = <<[ConnectProtocol |-> "tcp"]>>
  /\ defaulted.spec.MTLS # nil
  /\ defaulted.spec.MTLS[1].CertificatesDuration # nil
  /\ defaulted.spec.MTLS[1].CertificatesDuration[1].RootCACertificate
       = <<87600>>

\* A string, or a pointer to a plain value, that was set keeps its value.
KeptString(before, after) == before # "" => after = before
KeptPointer(before, after) == before # nil => after = before

\* A pointer to a record that was set still points to a record, in which
\* every field that was a set pointer (or a set string) keeps its value.
KeptPointerFields(before, after) ==
  before # nil =>
    /\ after # nil
    /\ \A f \in DOMAIN before[1] : KeptPointer(before[1][f], after[1][f])
KeptStringFields(before, after) ==
  before # nil =>
    /\ after # nil
    /\ \A f \in DOMAIN before[1] : KeptString(before[1][f], after[1][f])

\* The services block, the datastores and the mutual-TLS block keep what
\* was set in them.
KeptServices(before, after) ==
  before # nil =>
    /\ after # nil
    /\ \A f \in DOMAIN before[1] :
         KeptPointerFields(before[1][f], after[1][f])
KeptDatastores(before, after) ==
  /\ DOMAIN after = DOMAIN before
  /\ \A i \in DOMAIN before :
       /\ after[i].Name = before[i].Name
       /\ before[i].SQL = nil => after[i].SQL = nil
       /\ KeptStringFields(before[i].SQL, after[i].SQL)
KeptMTLS(before, after) ==
  IF before # nil /\ before[1].Provider = "cert-manager"
  THEN /\ after # nil
       /\ after[1].Provider = before[1].Provider
       /\ KeptPointer(before[1].RefreshInterval, after[1].RefreshInterval)
       /\ KeptPointerFields(before[1].CertificatesDuration,
                            after[1].CertificatesDuration)
  ELSE after = before

\* C21: reconcileDefaults only fills unset fields: every field that was set
\* before it (a replica count of 0 included) has the same value after it,
\* and the mutual-TLS block is touched only when mutual TLS with the
\* certificate manager is enabled.
C21_DefaultsKeepSetFields ==
  defaulted.runs >= 1 =>
    /\ KeptString(defaulted.before.Version, defaulted.spec.Version)
    /\ KeptString(defaulted.before.Image, defaulted.spec.Image)
    /\ KeptServices(defaulted.before.Services, defaulted.spec.Services)
    /\ KeptDatastores(defaulted.before.Datastores, defaulted.spec.Datastores)
    /\ defaulted.spec.Persistence.DefaultStore
         = defaulted.before.Persistence.DefaultStore
    /\ KeptString(defaulted.before.Persistence.VisibilityStore,
                  defaulted.spec.Persistence.VisibilityStore)
    /\ KeptStringFields(defaulted.before.UI, defaulted.spec.UI)
    /\ KeptStringFields(defaulted.before.AdminTools,
                        defaulted.spec.AdminTools)
    /\ KeptMTLS(defaulted.before.MTLS, defaulted.spec.MTLS)

\* C21 witness: the first application on a spec whose frontend has a replica
\* count of 0 and no port, and whose mutual TLS is not the certificate
\* manager's: the count is kept, the port filled, the block untouched.
C21_Witness ==
  /\ defaulted.runs = 1
  /\ defaulted.changed
  /\ defaulted.before.Services # nil
  /\ defaulted.before.Services[1].Frontend # nil
  /\ defaulted.before.Services[1].Frontend[1].Replicas = <<0>>
  /\ defaulted.spec.Services[1].Frontend[1].Replicas = <<0>>
  /\ defaulted.before.Services[1].Frontend[1].Port = nil
  /\ defaulted.spec.Services[1].Frontend[1].Port = <<7233>>
  /\ defaulted.before.MTLS # nil
  /\ defaulted.before.MTLS[1].Provider = "linkerd"
  /\ defaulted.spec.MTLS = defaulted.before.MTLS

\* C22: a builder's Update applied to its own result gives that result
\* again (the same object and the same error), and each result is the one
\* the cluster and the object it was given determine.
C22_UpdateIdempotent ==
  /\ built.runs >= 1 =>
       /\ built.object = BuilderUpdate(built.builder, built.instance,
                                       built.before).object
       /\ built.err = BuilderUpdate(built.builder, built.instance,
                                    built.before).err
  /\ built.runs >= 2 =>
       /\ built.object = built.before
       /\ built.object = BuilderUpdate(built.builder, built.instance,
                                       built.observed).object
       /\ built.err = BuilderUpdate(built.builder, built.instance,
                                    built.observed).err

\* C22 witness: the second Update in a row on an object that had other
\* labels, ports and a non-controller reference of the cluster.
C22_Witness ==
  /\ built.runs = 2
  /\ built.err = nil
  /\ built.object # built.observed
  /\ built.observed.Labels # NoEntries
  /\ Len(built.observed.Ports) = 3
  /\ Len(built.observed.OwnerReferences) = 2
  /\ built.object.OwnerReferences
       = <<OwnerRef("uid-other", FALSE), OwnerRef("uid-prod", TRUE)>>

\* The entries FrontendServiceBuilder.Update is to leave in the port list.
PrimaryPort ==
  ServicePort("grpc-rpc", built.instance.Services.Frontend.Port[1], "rpc")
HTTPPortEntry ==
  ServicePort("http", built.instance.Services.Frontend.HTTPPort[1], "http")

\* C23: after the frontend service builder's Update the port list is the
\* primary port alone when Frontend.HTTPPort is unset, and the primary port
\* followed by the HTTP port when it is set, whatever the list was before.
C23_FrontendPortList ==
  (built.builder = "FrontendService" /\ built.runs >= 1) =>
    IF built.instance.Services.Frontend.HTTPPort = nil
    THEN built.object.Ports = <<PrimaryPort>>
    ELSE built.object.Ports = <<PrimaryPort, HTTPPortEntry>>

\* C23 witness: the HTTP port is set and the object had the two ports in
\* the other order; after one Update the primary port is first.
C23_Witness ==
  /\ built.builder = "FrontendService"
  /\ built.runs = 1
  /\ built.instance.Services.Frontend.HTTPPort # nil
  /\ built.before.Ports = <<HTTPPortEntry, PrimaryPort>>
  /\ built.object.Ports = <<PrimaryPort, HTTPPortEntry>>

\* The keys the builder writes into the labels and the annotations.
BuilderLabels ==
  IF built.builder = "FrontendService"
  THEN GetLabels(built.instance, "frontend", built.instance.Version,
                 built.instance.Labels)
  ELSE MergeTwo(GetLabels(built.instance, "history", built.instance.Version,
                          built.instance.Labels),
                HeadlessLabels)
BuilderAnnotations ==
  GetAnnotations(built.instance.Name, built.instance.Annotations)
UnionWithOverride(before, owned, after) ==
  /\ DOMAIN after = DOMAIN before \cup DOMAIN owned
  /\ \A k \in DOMAIN owned : after[k] = owned[k]
  /\ \A k \in DOMAIN before \ DOMAIN owned : after[k] = before[k]

\* C24: after a builder's Update the labels and the annotations are those
\* the object had together with the builder's, a key of the builder having
\* the builder's value and every other key the value it had; the service
\* type, the selector and the port list are the desired ones whatever they
\* were on the object.
C24_MergeKeepsExternalOverwritesOwned ==
  built.runs >= 1 =>
    /\ UnionWithOverride(built.before.Labels, BuilderLabels,
                         built.object.Labels)
    /\ UnionWithOverride(built.before.Annotations, BuilderAnnotations,
                         built.object.Annotations)
    /\ built.object.Type = "ClusterIP"
    /\ built.object.Selector
         = LabelsSelector(built.instance,
                          IF built.builder = "FrontendService"
                          THEN "frontend" ELSE "history")
    /\ built.object.Ports
         = IF built.builder = "FrontendService"
           THEN IF built.instance.Services.Frontend.HTTPPort = nil
                THEN <<PrimaryPort>> ELSE <<PrimaryPort, HTTPPortEntry>>
           ELSE <<ServicePort("http-metrics", 9090, "metrics"),
                  ServicePort("tcp-rpc",
                              built.instance.Services.History.Port[1],
                              "rpc"),
                  ServicePort("tcp-membership",
                              built.instance.Services.History
                                   .MembershipPort[1],
                              "membership")>>

\* C24 witness: the object had a label of its own and a label of the
\* builder with another value, another type and another selector.
C24_Witness ==
  /\ built.runs = 1
  /\ built.before.Labels
       = MergeTwo(Entry("team", "other"),
                  Entry("app.kubernetes.io/component", "stale"))
  /\ built.instance.Labels = Entry("team", "payments")
  /\ built.before.Annotations # NoEntries
  /\ built.before.Type = "NodePort"
  /\ built.before.Selector # NoEntries
  /\ built.object.Labels["team"] = "payments"
  /\ built.object.Annotations["note"] = "kept"

\* The cluster was ready, the register call or its fallback update
\* succeeded, and attribute reconciliation succeeded.
AllStepsSucceeded ==
  /\ pass.cluster = "ready"
  /\ Issued("Register", "ok") \/ Issued("Update", "ok")
  /\ CleanAttributePass
SuccessConditions == {"Ready", "ReconcileSuccess"}

\* C25 (as claimed): a pass sets Ready and ReconcileSuccess and returns a
\* zero requeue delay with no error exactly when the cluster was ready, the
\* register (or its fallback update) succeeded and attribute reconciliation
\* succeeded; every other pass sets neither condition.
C25_SuccessIffAllStepsSucceeded ==
  /\ AllStepsSucceeded <=>
       /\ SuccessConditions \subseteq pass.set
       /\ pass.result = Result(0, nil)
  /\ ~AllStepsSucceeded => pass.set \cap SuccessConditions = {}

\* C25 (amended): a pass sets Ready and ReconcileSuccess exactly when the
\* cluster was ready, the register (or its fallback update) succeeded and
\* attribute reconciliation succeeded, and every other pass sets neither;
\* such a pass returns a zero requeue delay, with no error when the
\* end-of-pass patch is not rejected, and with the patch error (retried with
\* backoff) when it is.
C25_SuccessIffAllStepsSucceededUnlessPatchRejected ==
  /\ AllStepsSucceeded <=> SuccessConditions \subseteq pass.set
  /\ ~AllStepsSucceeded => pass.set \cap SuccessConditions = {}
  /\ AllStepsSucceeded =>
       /\ pass.branch = "success"
       /\ pass.result.requeueAfter = 0
       /\ pass.patch # "rejected" =>
            /\ pass.result = Result(0, nil)
            /\ pass.requeue = "none"
       /\ pass.patch = "rejected" =>
            /\ pass.result.err # nil
            /\ pass.requeue = "backoff"

\* C25 witness: the namespace was already registered, the fallback update
\* and the add request succeeded, both conditions were set and stored.
C25_Witness ==
  /\ AllStepsSucceeded
  /\ Issued("Update", "ok")
  /\ Issued("AddSearchAttributes", "ok")
  /\ pass.set = SuccessConditions
  /\ pass.patch = "ok"
  /\ pass.result = Result(0, nil)
  /\ obj = pass.mem

\* The pass reached the requests of attribute reconciliation: the server's
\* attributes were listed, every type string of the spec resolved and no
\* name had two types.
ReachedRequests ==
  /\ Listed
  /\ Resolvable(pass.pre.attrs) = DOMAIN pass.pre.attrs
  /\ ConflictNames(pass.pre.attrs, pass.remotePre.attrs) = {}
RemoveSet == (DOMAIN pass.remotePre.attrs) \ (DOMAIN pass.pre.attrs)
AddSet == (DOMAIN pass.pre.attrs) \ (DOMAIN pass.remotePre.attrs)

\* C26: in attribute reconciliation without conflict the remove request
\* comes before the add request; the remove request is issued exactly when
\* there is a name to remove, the add request only when there is an entry to
\* add (none of the two when the remote mapping equals the spec's); and when
\* the remove request fails no add request is issued, the remote mapping is
\* left as it was and the pass ends in the Error branch with the failure in
\* its ReconcileError condition.
C26_RemoveBeforeAddAndStopOnFailure ==
  ReachedRequests =>
    /\ \A i, j \in DOMAIN pass.calls :
         (/\ pass.calls[i].op = "RemoveSearchAttributes"
          /\ pass.calls[j].op = "AddSearchAttributes") => i < j
    /\ "RemoveSearchAttributes" \in IssuedOps <=> RemoveSet # {}
    /\ "AddSearchAttributes" \in IssuedOps <=>
         (AddSet # {} /\ ~Issued("RemoveSearchAttributes", "error"))
    /\ Issued("RemoveSearchAttributes", "error") =>
         /\ "AddSearchAttributes" \notin IssuedOps
         /\ remote.attrs = pass.remotePre.attrs
         /\ pass.branch = "error:attributes"
         /\ "ReconcileError" \in pass.set
         /\ pass.mem.conditions["ReconcileError"].message
              = Wrap("failed to remove search attributes", TransportErr)

\* C26 witness: there was a name to remove and an entry to add, and the
\* remove request failed.
C26_Witness ==
  /\ ReachedRequests
  /\ RemoveSet # {}
  /\ AddSet # {}
  /\ Issued("RemoveSearchAttributes", "error")
  /\ pass.branch = "error:attributes"

\* The remote mapping equalled the spec's and no request was issued.
C26_NothingToDo ==
  /\ ReachedRequests
  /\ DOMAIN pass.pre.attrs # {}
  /\ RemoveSet = {} /\ AddSet = {}
  /\ IssuedOps \cap {"RemoveSearchAttributes", "AddSearchAttributes"} = {}

\* An earlier pass with the same spec mapping removed names and then failed
\* to add, and the pass that has just returned made its requests without
\* conflict and without failure.
HealingPass ==
  /\ pass.prior # NoPartial
  /\ pass.prior.spec = pass.pre.attrs
  /\ CleanAttributePass

\* C27: after a pass whose remove request succeeded and whose add request
\* failed, a later pass with the same spec mapping M, without conflict and
\* with its requests succeeding, works from the server's attributes as they
\* are now: it removes none of the names the earlier pass removed (it
\* removes what the server holds and M does not), adds what M holds and the
\* server does not, and leaves the remote mapping equal to M.
C27_LaterPassHealsPartialFailure ==
  HealingPass =>
    /\ pass.branch = "success"
    /\ pass.prior.removed \cap DOMAIN pass.remotePre.attrs = {}
    /\ \A i \in DOMAIN pass.calls :
         pass.calls[i].op = "RemoveSearchAttributes" =>
           /\ pass.calls[i].names = RemoveSet
           /\ pass.calls[i].names \cap pass.prior.removed = {}
    /\ \A i \in DOMAIN pass.calls :
         pass.calls[i].op = "AddSearchAttributes" =>
           DOMAIN pass.calls[i].attrs = AddSet
    /\ "AddSearchAttributes" \in IssuedOps <=> AddSet # {}
    /\ DOMAIN remote.attrs = DOMAIN pass.pre.attrs
    /\ \A n \in DOMAIN pass.pre.attrs :
         remote.attrs[n] = TypeOf(pass.pre.attrs, n)

\* C27 witness: the earlier pass removed a name and failed to add; the later
\* pass issued the add request alone and the remote mapping is the spec's.
C27_Witness ==
  /\ HealingPass
  /\ pass.prior.removed # {}
  /\ AddSet # {}
  /\ IssuedOps = {"Register", "Update", "ListSearchAttributes",
                  "AddSearchAttributes"}
  /\ DOMAIN remote.attrs = DOMAIN pass.pre.attrs
  /\ DOMAIN pass.remotePre.attrs # {}

\* The pass entered the deletion branch: the object has a deletion
\* timestamp, its cluster was fetched and is ready.
InDeletionBranch ==
  /\ PassRan
  /\ pass.pre.deleting
  /\ pass.cluster = "ready"
  /\ pass.branch # "error:clusterGet"

\* C28: a pass issues the remote delete-namespace call only for an object
\* that carries the deletion finalizer, and only such a pass takes the
\* namespace off the server; in the deletion branch, for an object without
\* the finalizer, the pass opens no connection, issues no remote call,
\* leaves the server and the object as they were and returns no error and
\* no requeue.
C28_NoRemoteDeleteWithoutFinalizer ==
  /\ "DeleteNamespace" \in IssuedOps =>
       DeletionFinalizer \in pass.pre.finalizers
  /\ (PassRan /\ pass.pre.deleting /\ pass.remotePre.ns /\ ~remote.ns) =>
       DeletionFinalizer \in pass.pre.finalizers
  /\ (InDeletionBranch /\ DeletionFinalizer \notin pass.pre.finalizers) =>
       /\ pass.branch = "deleted"
       /\ pass.calls = <<>>
       /\ pass.opened = 0
       /\ remote = pass.remotePre
       /\ pass.mem = pass.pre
       /\ pass.patch = "none"
       /\ pass.result = Result(0, nil)
       /\ pass.requeue = "none"

\* C28 witness: the object is being deleted, another finalizer holds it, its
\* spec does not allow deletion and the namespace is on the server; the pass
\* leaves the namespace there.
C28_Witness ==
  /\ InDeletionBranch
  /\ pass.pre.finalizers = {ForeignFinalizer}
  /\ ~pass.pre.allowDeletion
  /\ pass.remotePre.ns
  /\ remote.ns
  /\ pass.branch = "deleted"
  /\ pass.calls = <<>>

====
